---- MODULE Spec2Model ----
(***************************************************************************)
(* Model of the AlgoPump trading SDK (src/trading_bot_sdk.py): venue       *)
(* classification, the buy/sell dispatch with its four venue paths, the    *)
(* position ledger kept in buy.json, and Position.should_exit.             *)
(*                                                                         *)
(* Amounts are integers: SOL amounts in lamports, token amounts in raw     *)
(* units (10^-6 token), prices in lamports per whole token.  Floating      *)
(* point rounding of the source is not modelled.                           *)
(***************************************************************************)
EXTENDS Integers, Sequences, FiniteSets, TLC

VARIABLES
    wallet,     \* self.wallet is set (a private key was configured)
    ledger,     \* the buy.json file: [file, positions]
    now,        \* int(time.time())
    pc,         \* position of the one trade call in flight
    call,       \* record of the trade / ledger call in flight or just finished
    curve,      \* chain: bonding-curve account per mint
    pools,      \* chain: accounts owned by the pool program, in RPC order
    stat,       \* record of the last get_token_status call
    probe,      \* record of the last Position.should_exit call
    run,        \* the run of one transaction-sending function
    tasks,      \* the buy_token coroutines in flight on the event loop
    lsn,        \* the background listeners and the call that stops one
    sdk         \* the global _sdk_instance and the get_sdk calls in flight

vars ==
    <<wallet, ledger, now, pc, call, curve, pools, stat, probe, run, tasks, lsn,
      sdk>>

(***************************************************************************)
(* Bounds                                                                  *)
(***************************************************************************)
MaxTime == 1
MaxPools == 2
MaxLamports == 1
MaxReserve == 2
MaxTokens == 2
MaxRetries == 4
MaxAmount == 3
MaxTasks == 2
MaxSubscriptions == 2
MaxCallers == 4
MaxPolls == 2

(***************************************************************************)
(* Values                                                                  *)
(***************************************************************************)
\* Optional[...] = None for the numeric fields of Position and TradeResult
None == -1

Mints == {"mintA", "mintB"}
\* a mint string that Pubkey.from_string rejects
BadMint == "not-base58"
MintStrings == Mints \cup {BadMint}

PRE_GRADUATION == "pre_graduation"
POST_GRADUATION == "post_graduation"

TOKEN_UNIT == 1000000

\* Python truthiness of an Optional number: None and 0 are false
Truthy(x) == x # None /\ x # 0

(***************************************************************************)
(* Chain state read by the venue classifier                                *)
(***************************************************************************)
CurveStates == {"missing", "active", "complete"}

\* offset and width of the base-mint field of a pool account
BASE_MINT_OFFSET == 43
PUBKEY_LEN == 32
\* size of a full pool record: 8 + 1 + 2 + 6 * 32 + 8 + 32
POOL_RECORD_LEN == 243

\* account data lengths: one that just holds the base-mint field, a full record
PoolDataLens == {BASE_MINT_OFFSET + PUBKEY_LEN, POOL_RECORD_LEN}

PoolAccounts == [pubkey : 1 .. MaxPools, len : PoolDataLens, base_mint : Mints]

\* responses of get_program_accounts: accounts with distinct addresses
PoolLists ==
    { s \in UNION { [1 .. n -> PoolAccounts] : n \in 0 .. MaxPools } :
        \A i, j \in DOMAIN s : i # j => s[i].pubkey # s[j].pubkey }

\* outcomes of the get_program_accounts call itself
ScanRpc == {"ok", "timeout", "error"}

\* curve_manager.get_pool_state: the snapshot, or an exception when the
\* account does not exist or the read fails
CurveRead(c, rpcOk) ==
    IF c = "missing" \/ ~rpcOk
        THEN [ok |-> FALSE, complete |-> FALSE]
        ELSE [ok |-> TRUE, complete |-> (c = "complete")]

Found(k) == [ok |-> TRUE, pubkey |-> k, error |-> ""]
Raise(e) == [ok |-> FALSE, pubkey |-> 0, error |-> e]

ScanMarketAnyMint(accounts, rpc, base_mint) ==
    LET hits == { i \in DOMAIN accounts :
                    accounts[i].len > BASE_MINT_OFFSET + PUBKEY_LEN }
    IN  IF rpc = "timeout"
            THEN Raise("Failed to search PumpSwap markets: Timeout while fetching PumpSwap markets - RPC may be overloaded")
        ELSE IF rpc = "error"
            THEN Raise("Failed to search PumpSwap markets: rpc error")
        ELSE IF accounts = <<>>
            THEN Raise("Failed to search PumpSwap markets: No AMM accounts returned from RPC")
        ELSE IF hits # {}
            THEN Found(accounts[CHOOSE i \in hits : \A j \in hits : i <= j].pubkey)
        ELSE Raise("No PumpSwap market found for this token")

\* _get_pumpswap_market_address: the first account, in RPC order, that is
\* longer than 75 bytes and carries base_mint at bytes 43..74
ScanMarket(accounts, rpc, base_mint) ==
    LET hits == { i \in DOMAIN accounts :
                    /\ accounts[i].len > BASE_MINT_OFFSET + PUBKEY_LEN
                    /\ accounts[i].base_mint = base_mint }
    IN  IF rpc = "timeout"
            THEN Raise("Failed to search PumpSwap markets: Timeout while fetching PumpSwap markets - RPC may be overloaded")
        ELSE IF rpc = "error"
            THEN Raise("Failed to search PumpSwap markets: rpc error")
        ELSE IF accounts = <<>>
            THEN Raise("Failed to search PumpSwap markets: No AMM accounts returned from RPC")
        ELSE IF hits # {}
            THEN Found(accounts[CHOOSE i \in hits : \A j \in hits : i <= j].pubkey)
        ELSE Raise("No PumpSwap market found for this token")

\* the fallback of get_token_status: get_client, then the pool scan
NotRun == Raise("not run")
FallbackScan(accounts, clientOk, rpc, mint) ==
    IF clientOk THEN ScanMarket(accounts, rpc, mint)
    ELSE Raise("client unavailable")

TokenStatusIgnoreComplete(mint, curveRes, scanRes) ==
    IF mint = BadMint THEN "raised"
    ELSE IF curveRes.ok THEN PRE_GRADUATION
    ELSE IF scanRes.ok THEN POST_GRADUATION
    ELSE PRE_GRADUATION

\* get_token_status: "raised" when Pubkey.from_string rejects the mint
TokenStatus(mint, curveRes, scanRes) ==
    IF mint = BadMint THEN "raised"
    ELSE IF curveRes.ok
        THEN (IF curveRes.complete THEN POST_GRADUATION ELSE PRE_GRADUATION)
    ELSE IF scanRes.ok THEN POST_GRADUATION
    ELSE PRE_GRADUATION

\* one run of get_token_status against curve state c and the pool accounts:
\* what it read, what it returned and the remote calls it made
Classify(mint, c, rpcOk, accounts, clientOk, rpc) ==
    LET curveRes == CurveRead(c, rpcOk)
        scanRes == IF mint = BadMint \/ curveRes.ok THEN NotRun
                   ELSE FallbackScan(accounts, clientOk, rpc, mint)
    IN  [curve_ok |-> curveRes.ok, scan |-> scanRes,
         result |-> TokenStatus(mint, curveRes, scanRes),
         trace |-> IF mint = BadMint THEN <<>>
                   ELSE IF curveRes.ok \/ ~clientOk THEN <<"get_pool_state">>
                   ELSE <<"get_pool_state", "get_program_accounts">>]

(***************************************************************************)
(* TradeResult and the four venue paths                                    *)
(***************************************************************************)
\* Optional[str] = None
NoneStr == "None"
\* the signature the chain returns for a submitted transaction
TxSig == "sig"

TradeResult(success, signature, error, tokens_bought, tokens_sold, sol_spent, sol_received, price) ==
    [success |-> success, signature |-> signature, error |-> error,
     tokens_bought |-> tokens_bought, tokens_sold |-> tokens_sold,
     sol_spent |-> sol_spent, sol_received |-> sol_received, price |-> price]

FailedNoError(e) == TradeResult(FALSE, NoneStr, NoneStr, None, None, None, None, None)

\* TradeResult(success=False, error=str(e))
Failed(e) == TradeResult(FALSE, NoneStr, e, None, None, None, None, None)

\* the remote calls of a path up to and including step k
Upto(steps, name) ==
    SubSeq(steps, 1, CHOOSE k \in DOMAIN steps : steps[k] = name)

\* a path that raised e after making the calls up to step `name`
Stop(steps, name, e) == [result |-> Failed(e), trace |-> Upto(steps, name)]

\* reads of the bonding-curve account in the buy path: the account does not
\* exist, or its two virtual reserves
\* the creator key of a curve account: curve_data[49:81]
CREATOR_OFFSET == 49

\* lengths of the curve account data: one byte short of the creator key, or
\* holding it
CurveDataLens ==
    {CREATOR_OFFSET + PUBKEY_LEN - 1, CREATOR_OFFSET + PUBKEY_LEN}

CurveAccounts ==
    {[found |-> FALSE, len |-> 0, vtr |-> 0, vsr |-> 0]}
        \cup [found : {TRUE}, len : CurveDataLens,
              vtr : 0 .. MaxReserve, vsr : 0 .. MaxReserve]

\* Pubkey.from_bytes(curve_data[49:81]) needs all 32 bytes of the creator key
CreatorDecodes(acct) == acct.len >= CREATOR_OFFSET + PUBKEY_LEN

PumpfunBuySteps ==
    <<"get_account_info", "get_latest_blockhash", "send_transaction",
      "confirm_transaction">>

\* int(token_amount * 10**6) with token_amount = sol_amount / token_price_sol
\* and token_price_sol = (virtual_sol_reserves / 10**9)
\* / (virtual_token_reserves / 10**6): the raw token units the buy
\* instruction asks for
TokenAmount(vtr, vsr, lamports) == (lamports * vtr) \div vsr

BuyTokenPumpfunUnconfirmed(lamports, acct, fail) ==
    LET steps == PumpfunBuySteps
        token_amount == (lamports * acct.vtr) \div acct.vsr
    IN  IF fail = "get_account_info"
            THEN Stop(steps, "get_account_info", "rpc error")
        ELSE IF ~acct.found
            THEN Stop(steps, "get_account_info", "Bonding curve account not found")
        ELSE IF ~CreatorDecodes(acct)
            THEN Stop(steps, "get_account_info", "creator key: wrong size")
        ELSE IF acct.vtr <= 0 \/ acct.vsr <= 0
            THEN Stop(steps, "get_account_info", "Invalid bonding curve reserves")
        ELSE IF fail = "get_latest_blockhash"
            THEN Stop(steps, "get_latest_blockhash", "rpc error")
        ELSE IF fail = "send_transaction"
            THEN Stop(steps, "send_transaction", "send failed")
        ELSE [result |-> TradeResult(TRUE, TxSig, NoneStr, token_amount,
                                     None, lamports, None, None),
              trace |-> steps]

BuyTokenPumpfunLateCheck(lamports, acct, fail) ==
    LET steps == PumpfunBuySteps
        token_amount == IF acct.vsr > 0 THEN (lamports * acct.vtr) \div acct.vsr ELSE 0
    IN  IF fail = "get_account_info"
            THEN Stop(steps, "get_account_info", "rpc error")
        ELSE IF ~acct.found
            THEN Stop(steps, "get_account_info", "Bonding curve account not found")
        ELSE IF ~CreatorDecodes(acct)
            THEN Stop(steps, "get_account_info", "creator key: wrong size")
        ELSE IF fail = "get_latest_blockhash"
            THEN Stop(steps, "get_latest_blockhash", "rpc error")
        ELSE IF fail = "send_transaction"
            THEN Stop(steps, "send_transaction", "send failed")
        ELSE IF acct.vtr <= 0 \/ acct.vsr <= 0
            THEN Stop(steps, "send_transaction", "Invalid bonding curve reserves")
        ELSE IF fail = "confirm_transaction"
            THEN Stop(steps, "confirm_transaction", "confirmation timed out")
        ELSE [result |-> TradeResult(TRUE, TxSig, NoneStr, token_amount,
                                     None, lamports, None, None),
              trace |-> steps]

\* _buy_token_pumpfun: every exception becomes TradeResult(success=False)
BuyTokenPumpfun(lamports, acct, fail) ==
    LET steps == PumpfunBuySteps
        token_amount == TokenAmount(acct.vtr, acct.vsr, lamports)
    IN  IF fail = "get_account_info"
            THEN Stop(steps, "get_account_info", "rpc error")
        ELSE IF ~acct.found
            THEN Stop(steps, "get_account_info", "Bonding curve account not found")
        ELSE IF ~CreatorDecodes(acct)
            THEN Stop(steps, "get_account_info", "creator key: wrong size")
        ELSE IF acct.vtr <= 0 \/ acct.vsr <= 0
            THEN Stop(steps, "get_account_info", "Invalid bonding curve reserves")
        ELSE IF fail = "get_latest_blockhash"
            THEN Stop(steps, "get_latest_blockhash", "rpc error")
        ELSE IF fail = "send_transaction"
            THEN Stop(steps, "send_transaction", "send failed")
        ELSE IF fail = "confirm_transaction"
            THEN Stop(steps, "confirm_transaction", "confirmation timed out")
        ELSE [result |-> TradeResult(TRUE, TxSig, NoneStr, token_amount,
                                     None, lamports, None, None),
              trace |-> steps]

\* the failure points of a path: the remote call that fails in this
\* execution if the path reaches it, or none
FailPoints(steps) == {"none"} \cup {steps[k] : k \in DOMAIN steps}

\* the errors a simulation can report in simulation.value.err
SimErrors == {"InstructionError", "InsufficientFundsForRent"}

\* Exception(f"Transaction simulation failed: {simulation.value.err}")
SimulationFailed(err) == "Transaction simulation failed: " \o err

\* the failure points of a pool path: a remote call that raises, or a
\* simulation that returns an error
PoolFailPoints(steps) == FailPoints(steps) \cup SimErrors

PumpswapBuySteps ==
    <<"get_program_accounts", "get_account_info",
      "get_token_account_balance(base)", "get_token_account_balance(quote)",
      "get_latest_blockhash", "simulate_transaction", "send_transaction",
      "confirm_transaction">>

BuyTokenPumpswapIgnoreSim(scan, pool_price, fail) ==
    LET steps == PumpswapBuySteps
    IN  IF ~scan.ok
            THEN Stop(steps, "get_program_accounts", scan.error)
        ELSE IF fail = "get_account_info"
            THEN Stop(steps, "get_account_info", "Invalid market data")
        ELSE IF fail = "get_token_account_balance(base)"
            THEN Stop(steps, "get_token_account_balance(base)", "rpc error")
        ELSE IF fail = "get_token_account_balance(quote)"
            THEN Stop(steps, "get_token_account_balance(quote)", "rpc error")
        ELSE IF pool_price = 0
            THEN Stop(steps, "get_token_account_balance(quote)",
                      "float division by zero")
        ELSE IF fail = "get_latest_blockhash"
            THEN Stop(steps, "get_latest_blockhash", "rpc error")
        ELSE IF fail = "simulate_transaction"
            THEN Stop(steps, "simulate_transaction", "rpc error")
        ELSE IF fail = "send_transaction"
            THEN Stop(steps, "send_transaction", "send failed")
        ELSE IF fail = "confirm_transaction"
            THEN Stop(steps, "confirm_transaction", "confirmation timed out")
        ELSE [result |-> TradeResult(TRUE, TxSig, NoneStr, None, None,
                                     None, None, None),
              trace |-> steps]

BuyTokenPumpswapNoSimulate(scan, pool_price, fail) ==
    LET steps == SelectSeq(PumpswapBuySteps,
                           LAMBDA x : x # "simulate_transaction")
    IN  IF ~scan.ok
            THEN Stop(steps, "get_program_accounts", scan.error)
        ELSE IF fail = "get_account_info"
            THEN Stop(steps, "get_account_info", "Invalid market data")
        ELSE IF fail = "get_token_account_balance(base)"
            THEN Stop(steps, "get_token_account_balance(base)", "rpc error")
        ELSE IF fail = "get_token_account_balance(quote)"
            THEN Stop(steps, "get_token_account_balance(quote)", "rpc error")
        ELSE IF pool_price = 0
            THEN Stop(steps, "get_token_account_balance(quote)",
                      "float division by zero")
        ELSE IF fail = "get_latest_blockhash"
            THEN Stop(steps, "get_latest_blockhash", "rpc error")
        ELSE IF fail = "send_transaction"
            THEN Stop(steps, "send_transaction", "send failed")
        ELSE IF fail = "confirm_transaction"
            THEN Stop(steps, "confirm_transaction", "confirmation timed out")
        ELSE [result |-> TradeResult(TRUE, TxSig, NoneStr, None, None,
                                     None, None, None),
              trace |-> steps]

\* _buy_token_pumpswap with _buy_pump_swap_token; scan is the outcome of
\* _get_pumpswap_market_address, pool_price the price of the pool
BuyTokenPumpswap(scan, pool_price, fail) ==
    LET steps == PumpswapBuySteps
    IN  IF ~scan.ok
            THEN Stop(steps, "get_program_accounts", scan.error)
        ELSE IF fail = "get_account_info"
            THEN Stop(steps, "get_account_info", "Invalid market data")
        ELSE IF fail = "get_token_account_balance(base)"
            THEN Stop(steps, "get_token_account_balance(base)", "rpc error")
        ELSE IF fail = "get_token_account_balance(quote)"
            THEN Stop(steps, "get_token_account_balance(quote)", "rpc error")
        ELSE IF pool_price = 0
            THEN Stop(steps, "get_token_account_balance(quote)",
                      "float division by zero")
        ELSE IF fail = "get_latest_blockhash"
            THEN Stop(steps, "get_latest_blockhash", "rpc error")
        ELSE IF fail = "simulate_transaction"
            THEN Stop(steps, "simulate_transaction", "rpc error")
        ELSE IF fail \in SimErrors
            THEN Stop(steps, "simulate_transaction", SimulationFailed(fail))
        ELSE IF fail = "send_transaction"
            THEN Stop(steps, "send_transaction", "send failed")
        ELSE IF fail = "confirm_transaction"
            THEN Stop(steps, "confirm_transaction", "confirmation timed out")
        ELSE [result |-> TradeResult(TRUE, TxSig, NoneStr, None, None,
                                     None, None, None),
              trace |-> steps]

PumpswapSellSteps ==
    <<"get_program_accounts", "get_account_info",
      "get_token_account_balance(user)",
      "get_token_account_balance(base)", "get_token_account_balance(quote)",
      "get_latest_blockhash", "simulate_transaction", "send_transaction",
      "confirm_transaction">>

\* _sell_token_pumpswap with _sell_pump_swap_token; token_balance is the
\* trader's balance of the asset
SellTokenPumpswap(scan, token_balance, fail) ==
    LET steps == PumpswapSellSteps
    IN  IF ~scan.ok
            THEN Stop(steps, "get_program_accounts", scan.error)
        ELSE IF fail = "get_account_info"
            THEN Stop(steps, "get_account_info", "Invalid market data")
        ELSE IF fail = "get_token_account_balance(user)"
            THEN Stop(steps, "get_token_account_balance(user)",
                      "Could not get token balance - do you have any tokens to sell?")
        ELSE IF token_balance = 0
            THEN Stop(steps, "get_token_account_balance(user)", "No tokens to sell")
        ELSE IF fail = "get_token_account_balance(base)"
            THEN Stop(steps, "get_token_account_balance(base)", "rpc error")
        ELSE IF fail = "get_token_account_balance(quote)"
            THEN Stop(steps, "get_token_account_balance(quote)", "rpc error")
        ELSE IF fail = "get_latest_blockhash"
            THEN Stop(steps, "get_latest_blockhash", "rpc error")
        ELSE IF fail = "simulate_transaction"
            THEN Stop(steps, "simulate_transaction", "rpc error")
        ELSE IF fail \in SimErrors
            THEN Stop(steps, "simulate_transaction", SimulationFailed(fail))
        ELSE IF fail = "send_transaction"
            THEN Stop(steps, "send_transaction", "send failed")
        ELSE IF fail = "confirm_transaction"
            THEN Stop(steps, "confirm_transaction", "confirmation timed out")
        ELSE [result |-> TradeResult(TRUE, TxSig, NoneStr, None, None,
                                     None, None, None),
              trace |-> steps]

\* results of PlatformAwareSeller.execute: a confirmed sale with its
\* signature, amount and price, or a failure with its message
BaseTradeResults ==
    { [success |-> TRUE, tx_signature |-> TxSig, error_message |-> NoneStr,
       amount |-> 1, price |-> 1],
      [success |-> FALSE, tx_signature |-> NoneStr,
       error_message |-> "Transaction failed to confirm", amount |-> None,
       price |-> None] }

\* TradeResult.from_base_trade_result
FromBaseTradeResult(base) ==
    TradeResult(base.success,
                IF base.tx_signature # NoneStr THEN base.tx_signature ELSE NoneStr,
                base.error_message,
                IF base.success THEN base.amount ELSE None,
                IF base.success THEN base.amount ELSE None,
                IF base.success THEN base.price ELSE None,
                IF base.success THEN base.price ELSE None,
                base.price)

PumpfunSellSteps == <<"seller.execute">>

\* _sell_token_pumpfun: seller.execute raises (fail) or returns a base result
SellTokenPumpfun(base, fail) ==
    IF fail = "seller.execute"
        THEN [result |-> Failed("seller raised"), trace |-> PumpfunSellSteps]
        ELSE [result |-> FromBaseTradeResult(base), trace |-> PumpfunSellSteps]

(***************************************************************************)
(* The position ledger (buy.json)                                          *)
(***************************************************************************)
\* Position as save_buy_position builds it: no exit thresholds
Position(mint, tokens_owned, sol_invested, entry_price, entry_time) ==
    [mint |-> mint, tokens_owned |-> tokens_owned,
     sol_invested |-> sol_invested, entry_price |-> entry_price,
     entry_time |-> entry_time,
     take_profit |-> None, stop_loss |-> None, max_hold_time |-> None]

\* result.sol_spent / (result.tokens_bought / 10**6)
EntryPrice(sol_spent, tokens_bought) == (sol_spent * TOKEN_UNIT) \div tokens_bought

\* outcomes of rewriting the file: written, open() failed (file untouched),
\* or the write failed after open() truncated the file
WriteOutcomes == {"ok", "open_fails", "write_fails"}

\* _load_positions: {} when the file is absent or cannot be read or parsed
LoadPositions(l, readOk) ==
    IF l.file = "valid" /\ readOk THEN l.positions ELSE {}

SavePositionsTruncating(l, positions, io) ==
    IF io = "ok" THEN [file |-> "valid", positions |-> positions]
    ELSE [file |-> "corrupt", positions |-> {}]

\* _save_positions: errors are logged and swallowed
SavePositions(l, positions, io) ==
    IF io = "ok" THEN [file |-> "valid", positions |-> positions]
    ELSE IF io = "open_fails" THEN l
    ELSE [file |-> "corrupt", positions |-> {}]

\* save_buy_position: positions[mint] = position, then rewrite the file
SaveBuyPosition(l, mint, tokens_bought, sol_spent, entry_price, t, readOk, io) ==
    LET positions == LoadPositions(l, readOk)
        position == Position(mint, tokens_bought, sol_spent, entry_price, t)
    IN  SavePositions(l, {p \in positions : p.mint # mint} \cup {position}, io)

\* remove_position: rewrite the file only if the mint has a position
RemovePosition(l, mint, readOk, io) ==
    LET positions == LoadPositions(l, readOk)
    IN  IF \E p \in positions : p.mint = mint
            THEN SavePositions(l, {p \in positions : p.mint # mint}, io)
            ELSE l

\* get_current_positions on a readable file
Held(l) == LoadPositions(l, TRUE)

(***************************************************************************)
(* Position.should_exit                                                    *)
(***************************************************************************)
NoExit == <<FALSE, "">>

ShouldExitSwapped(pos, current_price, t) ==
    IF Truthy(pos.take_profit) /\ current_price <= pos.take_profit
        THEN <<TRUE, "take_profit">>
    ELSE IF Truthy(pos.stop_loss) /\ current_price >= pos.stop_loss
        THEN <<TRUE, "stop_loss">>
    ELSE IF Truthy(pos.max_hold_time) /\ t - pos.entry_time > pos.max_hold_time
        THEN <<TRUE, "max_hold_time">>
    ELSE NoExit

ShouldExit(pos, current_price, t) ==
    IF Truthy(pos.take_profit) /\ current_price >= pos.take_profit
        THEN <<TRUE, "take_profit">>
    ELSE IF Truthy(pos.stop_loss) /\ current_price <= pos.stop_loss
        THEN <<TRUE, "stop_loss">>
    ELSE IF Truthy(pos.max_hold_time) /\ t - pos.entry_time > pos.max_hold_time
        THEN <<TRUE, "max_hold_time">>
    ELSE NoExit

\* Inputs of the should_exit checks: prices as tenths of the entry price
EntryPrices == {10, 20}
Tenths == {0, 4, 5, 10, 20, 25}
PriceGrid(e) == {(k * e) \div 10 : k \in Tenths}
HoldTimes == {None} \cup (0 .. MaxTime)

\* the positions and prices should_exit is applied to
ExitInputs ==
    UNION { { [called |-> FALSE,
               pos |-> [mint |-> "mintA", tokens_owned |-> 1, sol_invested |-> 1,
                        entry_price |-> e, entry_time |-> 0,
                        take_profit |-> tp, stop_loss |-> sl,
                        max_hold_time |-> h],
               price |-> price] :
                 tp \in {None} \cup PriceGrid(e), sl \in {None} \cup PriceGrid(e),
                 price \in PriceGrid(e), h \in HoldTimes } : e \in EntryPrices }

(***************************************************************************)
(* Values of the other variables while they are not in use                 *)
(***************************************************************************)
EmptyLedger == [file |-> "absent", positions |-> {}]
NoResult == Failed(NoneStr)
Call(op, mint, lamports, done, raised, status, ready, venues, trace, fail, result, before) ==
    [op |-> op, mint |-> mint, lamports |-> lamports, done |-> done,
     raised |-> raised, status |-> status, ready |-> ready,
     venues |-> venues, trace |-> trace, fail |-> fail, result |-> result,
     before |-> before, io |-> "none", readOk |-> TRUE]
NoCall == Call("none", BadMint, 0, FALSE, FALSE, "none", FALSE, {}, <<>>,
               "none", NoResult, EmptyLedger)
NoStat == [called |-> FALSE]
\* no buy_token coroutine in flight, no listener started
NoTasks == <<>>
LogFiles == {"new_tokens.json", "other.json"}
\* _sdk_instance = None and no get_sdk call made
NoSdk ==
    [instance |-> 0, created |-> 0, ready |-> "none", polls |-> 0,
     callers |-> <<>>]
\* no stop_token_listener call made
NoStop ==
    [pc |-> "idle", file |-> NoneStr, running |-> FALSE, result |-> NoneStr,
     error |-> NoneStr, task_done |-> FALSE, key_present |-> FALSE,
     active_empty |-> FALSE, subs_cancelled |-> FALSE]
\* the listener state after construction: background_listeners = {} and
\* active_listeners = []; task holds the state of the background task made
\* for each log file, cancel the tasks whose cancel() is pending, subs the
\* subscription tasks created so far
NoListeners ==
    [task |-> [f \in LogFiles |-> "none"], background_listeners |-> {},
     cancel |-> {}, subs |-> <<>>, active_listeners |-> {}, stop |-> NoStop,
     status |-> [file |-> NoneStr, result |-> NoneStr, subscribed |-> FALSE,
                 alive |-> FALSE]]
NoProbe == [called |-> FALSE]
\* no sending function has been started
NoRun ==
    [kind |-> "none", pc |-> "done", lamports |-> 0, max_retries |-> 0,
     attempt |-> 0, trace |-> <<>>, waits |-> <<>>, signature |-> NoneStr,
     raised |-> FALSE, error |-> NoneStr]

NoChainCurve == [m \in Mints |-> "missing"]

(***************************************************************************)
(* Specification of Position.should_exit                                   *)
(***************************************************************************)
InitExit ==
    /\ wallet = TRUE
    /\ ledger = EmptyLedger
    /\ now = 0
    /\ pc = "idle"
    /\ call = NoCall
    /\ curve = NoChainCurve
    /\ pools = <<>>
    /\ stat = NoStat
    /\ probe \in ExitInputs
    /\ run = NoRun
    /\ tasks = NoTasks
    /\ lsn = NoListeners
    /\ sdk = NoSdk

\* time.time() advances
Tick ==
    /\ now < MaxTime
    /\ now' = now + 1
    /\ UNCHANGED <<wallet, ledger, pc, call, curve, pools, stat, probe, run, tasks, lsn, sdk>>

\* position.should_exit(current_price) on a position built by an SDK user
ShouldExitCall ==
    /\ ~probe.called
    /\ probe' = [called |-> TRUE, pos |-> probe.pos, price |-> probe.price,
                 time |-> now,
                 result |-> ShouldExit(probe.pos, probe.price, now)]
    /\ UNCHANGED <<wallet, ledger, now, pc, call, curve, pools, stat, run, tasks, lsn, sdk>>

NextExit == Tick \/ ShouldExitCall

SpecExit == InitExit /\ [][NextExit]_vars

\* the max-hold duration of a position has elapsed at time t
Elapsed(pos, t) ==
    pos.max_hold_time # None /\ t - pos.entry_time > pos.max_hold_time

\* the exit decision as the claim C8 words it: a threshold that is set
\* (not None) is compared, in the order take-profit, stop-loss, max-hold
StatedExit(pos, current_price, t) ==
    IF pos.take_profit # None /\ current_price >= pos.take_profit
        THEN <<TRUE, "take_profit">>
    ELSE IF pos.stop_loss # None /\ current_price <= pos.stop_loss
        THEN <<TRUE, "stop_loss">>
    ELSE IF Elapsed(pos, t)
        THEN <<TRUE, "max_hold_time">>
    ELSE NoExit

\* C8: should_exit returns the reason of the first of take-profit
\* (price >= take_profit), stop-loss (price <= stop_loss), max-hold elapsed
\* that holds, and (False, "") when none holds.
Cex_C8_ExitOrder ==
    probe.called =>
        probe.result = StatedExit(probe.pos, probe.price, probe.time)

InitStatus ==
    /\ wallet = TRUE
    /\ ledger = EmptyLedger
    /\ now = 0
    /\ pc = "idle"
    /\ call = NoCall
    /\ curve \in [Mints -> CurveStates]
    /\ pools \in PoolLists
    /\ stat = NoStat
    /\ probe = NoProbe
    /\ run = NoRun
    /\ tasks = NoTasks
    /\ lsn = NoListeners
    /\ sdk = NoSdk

\* the curve of a mint completes (graduation is one-way)
Graduate(m) ==
    /\ curve[m] = "active"
    /\ curve' = [curve EXCEPT ![m] = "complete"]
    /\ UNCHANGED <<wallet, ledger, now, pc, call, pools, stat, probe, run, tasks, lsn, sdk>>

\* a pool account appears on chain
CreatePool(acct) ==
    /\ Len(pools) < MaxPools
    /\ \A i \in DOMAIN pools : pools[i].pubkey # acct.pubkey
    /\ pools' = Append(pools, acct)
    /\ UNCHANGED <<wallet, ledger, now, pc, call, curve, stat, probe, run, tasks, lsn, sdk>>

\* await sdk.get_token_status(mint)
GetTokenStatus(mint, rpcOk, clientOk, rpc) ==
    LET c == IF mint \in Mints THEN curve[mint] ELSE "missing"
        o == Classify(mint, c, rpcOk, pools, clientOk, rpc)
    IN  /\ stat' = [called |-> TRUE, mint |-> mint, curve_state |-> c,
                    curve_ok |-> o.curve_ok, scan |-> o.scan,
                    result |-> o.result]
        /\ UNCHANGED <<wallet, ledger, now, pc, call, curve, pools, probe, run, tasks, lsn, sdk>>

NextStatus ==
    \/ \E m \in Mints : Graduate(m)
    \/ \E acct \in PoolAccounts : CreatePool(acct)
    \/ \E mint \in MintStrings, rpcOk \in BOOLEAN, clientOk \in BOOLEAN,
          rpc \in ScanRpc : GetTokenStatus(mint, rpcOk, clientOk, rpc)

SpecStatus == InitStatus /\ [][NextStatus]_vars

\* C1: whenever the bonding-curve snapshot of the asset is fetched,
\* get_token_status returns POST_GRADUATION if the curve is complete and
\* PRE_GRADUATION if it is not.
Thm_C1_CurveDecides ==
    (stat.called /\ stat.mint \in Mints /\ stat.curve_ok) =>
        stat.result = IF stat.curve_state = "complete"
                        THEN POST_GRADUATION ELSE PRE_GRADUATION

Wit_C1_CompleteCurve ==
    /\ stat.called /\ stat.curve_ok
    /\ stat.curve_state = "complete"
    /\ stat.result = POST_GRADUATION

\* C2: with the bonding-curve account missing, get_token_status returns
\* POST_GRADUATION when the pool scan finds an account whose base-mint field
\* equals the asset, and PRE_GRADUATION when the scan finds none.
Thm_C2_MissingCurveScan ==
    (stat.called /\ stat.mint \in Mints /\ stat.curve_state = "missing") =>
        /\ stat.scan.ok =>
             /\ stat.result = POST_GRADUATION
             /\ \E i \in DOMAIN pools :
                    /\ pools[i].pubkey = stat.scan.pubkey
                    /\ pools[i].base_mint = stat.mint
        /\ ~stat.scan.ok => stat.result = PRE_GRADUATION

Wit_C2_PoolFound ==
    /\ stat.called /\ stat.mint \in Mints
    /\ stat.curve_state = "missing"
    /\ stat.scan.ok
    /\ stat.result = POST_GRADUATION

Wit_C2_NoPool ==
    /\ stat.called /\ stat.mint \in Mints
    /\ stat.curve_state = "missing"
    /\ stat.scan.error = "No PumpSwap market found for this token"
    /\ stat.result = PRE_GRADUATION

\* C25: get_token_status performs the pool-market search only if the curve
\* account does not exist at all: a curve read that fails for another reason
\* is not treated as a missing curve and leads neither to the pool scan nor
\* to a classification derived from it or from the PreGraduation default.
Cex_C25_ScanOnlyWhenMissing ==
    (stat.called /\ stat.mint \in Mints /\ stat.curve_state # "missing"
        /\ ~stat.curve_ok)
        => /\ stat.scan = NotRun
           /\ stat.result \notin {PRE_GRADUATION, POST_GRADUATION}

\* what get_token_status returns for a mint whose curve read failed and
\* whose pool scan ended with the error e
StatusAfterScanError(mint, e) ==
    TokenStatus(mint, [ok |-> FALSE, complete |-> FALSE], Raise(e))

\* C26: the 'no venue found' outcome of the pool scan is distinct from its
\* 'timed out' outcome, for a caller of the scan and for a caller of
\* get_token_status: what each receives after a scan that timed out differs
\* from what it receives after a scan that completed without a match.
Cex_C26_TimeoutDistinct ==
    (stat.called /\ stat.mint \in Mints /\ ~stat.curve_ok
        /\ stat.scan.error = "Failed to search PumpSwap markets: Timeout while fetching PumpSwap markets - RPC may be overloaded")
        => /\ stat.scan.error # "No PumpSwap market found for this token"
           /\ stat.result
                # StatusAfterScanError(stat.mint,
                                       "No PumpSwap market found for this token")

\* C36: classification is monotone over time: on a chain where a curve's
\* complete flag never reverts and a pool record never disappears, once
\* get_token_status has returned POST_GRADUATION for an asset, no later
\* get_token_status call for that asset returns PRE_GRADUATION, whatever
\* transient read failures or scan timeouts occur in the later call.
Cex_C36_ClassificationMonotone ==
    [][(stat.called /\ stat.result = POST_GRADUATION
          /\ stat'.mint = stat.mint)
        => stat'.result # PRE_GRADUATION]_vars

(***************************************************************************)
(* Specification of the trade calls and the ledger                         *)
(***************************************************************************)
Init ==
    /\ wallet \in BOOLEAN
    /\ ledger = EmptyLedger
    /\ now = 0
    /\ pc = "idle"
    /\ call = NoCall
    /\ curve = NoChainCurve
    /\ pools = <<>>
    /\ stat = NoStat
    /\ probe = NoProbe
    /\ run = NoRun
    /\ tasks = NoTasks
    /\ lsn = NoListeners
    /\ sdk = NoSdk

\* what a get_token_status call can return for a mint, over all chain states
\* and read outcomes: its result and the remote calls it made
StatusOutcomes ==
    [ mint \in MintStrings |->
        { [result |-> o.result, trace |-> o.trace] :
            o \in { Classify(mint, c, rpcOk, accounts, clientOk, rpc) :
                      c \in CurveStates, rpcOk \in BOOLEAN,
                      accounts \in PoolLists, clientOk \in BOOLEAN,
                      rpc \in ScanRpc } } ]

\* what _get_pumpswap_market_address can return for a mint
ScanOutcomes ==
    [ mint \in Mints |->
        { ScanMarket(accounts, rpc, mint) :
            accounts \in PoolLists, rpc \in ScanRpc } ]

\* the remote calls of one stage of a trade call
Tag(stage, steps) == [k \in DOMAIN steps |-> <<stage, steps[k]>>]

VenueOfAlwaysCurve(status) == "curve"

\* the venue buy_token and sell_token dispatch to
VenueOf(status) == IF status = PRE_GRADUATION THEN "curve" ELSE "pool"

SaveAlways(result) == TRUE

\* buy_token: "if result.success and result.tokens_bought and result.sol_spent"
ShouldSave(result) ==
    result.success /\ Truthy(result.tokens_bought) /\ Truthy(result.sol_spent)

\* the message of the ValueError that buy_token / sell_token raise without a
\* wallet; a raised call carries the message of its exception in result.error
NoWallet == Failed("No wallet configured for trading")

TradeStartLateWalletCheck(op, mint, lamports) ==
    /\ pc = "idle"
    /\ \E o \in StatusOutcomes[mint] :
         IF ~wallet
           THEN /\ call' = Call(op, mint, lamports, TRUE, TRUE, "none", FALSE,
                                {}, Tag("resolve", o.trace), "none", NoWallet,
                                ledger)
                /\ pc' = "idle"
         ELSE IF o.result = "raised"
           THEN /\ call' = Call(op, mint, lamports, TRUE, FALSE,
                                "raised", FALSE, {}, <<>>, "none",
                                Failed("Invalid Base58 string"), ledger)
                /\ pc' = "idle"
           ELSE /\ call' = Call(op, mint, lamports, FALSE, FALSE,
                                o.result, FALSE, {},
                                Tag("resolve", o.trace), "none",
                                NoResult, ledger)
                /\ pc' = "resolved"
    /\ UNCHANGED <<wallet, ledger, now, curve, pools, stat, probe, run, tasks, lsn, sdk>>

\* the wallet check and the classification that open buy_token / sell_token
TradeStart(op, mint, lamports) ==
    /\ pc = "idle"
    /\ IF ~wallet
         THEN \* raise ValueError("No wallet configured for trading")
              /\ call' = Call(op, mint, lamports, TRUE, TRUE, "none", FALSE,
                              {}, <<>>, "none", NoWallet, ledger)
              /\ pc' = "idle"
         ELSE \E o \in StatusOutcomes[mint] :
                IF o.result = "raised"
                  THEN /\ call' = Call(op, mint, lamports, TRUE, FALSE,
                                       "raised", FALSE, {}, <<>>, "none",
                                       Failed("Invalid Base58 string"), ledger)
                       /\ pc' = "idle"
                  ELSE /\ call' = Call(op, mint, lamports, FALSE, FALSE,
                                       o.result, FALSE, {},
                                       Tag("resolve", o.trace), "none",
                                       NoResult, ledger)
                       /\ pc' = "resolved"
    /\ UNCHANGED <<wallet, ledger, now, curve, pools, stat, probe, run, tasks, lsn, sdk>>

\* await sdk.buy_token(mint, sol_amount, platform, slippage)
BuyTokenStart(mint, lamports) == TradeStart("buy", mint, lamports)

\* await sdk.sell_token(mint, platform, slippage)
SellTokenStart(mint) == TradeStart("sell", mint, 0)

\* the rest of buy_token after the path returned r: save the position of a
\* successful buy, return the result
BuyTokenReturn(ready, venues, fail, r) ==
    /\ LET returned ==
             Call("buy", call.mint, call.lamports, TRUE, FALSE, call.status,
                  ready, venues, call.trace \o Tag(VenueOf(call.status), r.trace),
                  fail, r.result, call.before)
       IN  IF ShouldSave(r.result)
             THEN \E readOk \in BOOLEAN, io \in WriteOutcomes :
                    /\ ledger' = SaveBuyPosition(ledger, call.mint,
                            r.result.tokens_bought, r.result.sol_spent,
                            EntryPrice(r.result.sol_spent, r.result.tokens_bought),
                            now, readOk, io)
                    /\ call' = [returned EXCEPT !.io = io, !.readOk = readOk]
             ELSE /\ ledger' = ledger
                  /\ call' = returned
    /\ pc' = "idle"
    /\ UNCHANGED <<wallet, now, curve, pools, stat, probe, run, tasks, lsn, sdk>>

NotReady == [result |-> Failed("Client not ready after 10 seconds"), trace |-> <<>>]

\* buy_token, PRE_GRADUATION: wait_for_client_ready, then _buy_token_pumpfun
BuyTokenCurve ==
    /\ pc = "resolved" /\ call.op = "buy"
    /\ VenueOf(call.status) = "curve"
    /\ \E ready \in BOOLEAN, acct \in CurveAccounts,
          fail \in FailPoints(PumpfunBuySteps) :
         IF ready
           THEN BuyTokenReturn(TRUE, {"curve"}, fail,
                    BuyTokenPumpfun(call.lamports, acct, fail))
           ELSE BuyTokenReturn(FALSE, {}, "none", NotReady)

\* buy_token, POST_GRADUATION: _buy_token_pumpswap
BuyTokenPool ==
    /\ pc = "resolved" /\ call.op = "buy"
    /\ VenueOf(call.status) = "pool"
    /\ \E scan \in ScanOutcomes[call.mint], pool_price \in 0 .. 1,
          fail \in PoolFailPoints(PumpswapBuySteps) :
         /\ (fail = "get_program_accounts") <=> ~scan.ok
         /\ BuyTokenReturn(TRUE, {"pool"}, fail,
             BuyTokenPumpswap(scan, pool_price, fail))

\* the rest of sell_token: return the result of the path
SellTokenReturn(ready, venues, fail, r) ==
    /\ call' = Call("sell", call.mint, 0, TRUE, FALSE, call.status,
                    ready, venues, call.trace \o Tag(VenueOf(call.status), r.trace),
                    fail, r.result, call.before)
    /\ pc' = "idle"
    /\ UNCHANGED <<wallet, ledger, now, curve, pools, stat, probe, run, tasks, lsn, sdk>>

\* sell_token, PRE_GRADUATION: wait_for_client_ready, then _sell_token_pumpfun
SellTokenCurve ==
    /\ pc = "resolved" /\ call.op = "sell"
    /\ VenueOf(call.status) = "curve"
    /\ \E ready \in BOOLEAN, base \in BaseTradeResults,
          fail \in FailPoints(PumpfunSellSteps) :
         IF ready
           THEN SellTokenReturn(TRUE, {"curve"}, fail, SellTokenPumpfun(base, fail))
           ELSE SellTokenReturn(FALSE, {}, "none", NotReady)

\* sell_token, POST_GRADUATION: _sell_token_pumpswap
SellTokenPool ==
    /\ pc = "resolved" /\ call.op = "sell"
    /\ VenueOf(call.status) = "pool"
    /\ \E scan \in ScanOutcomes[call.mint], token_balance \in 0 .. MaxTokens,
          fail \in PoolFailPoints(PumpswapSellSteps) :
         /\ (fail = "get_program_accounts") <=> ~scan.ok
         /\ SellTokenReturn(TRUE, {"pool"}, fail,
             SellTokenPumpswap(scan, token_balance, fail))

\* sdk.save_buy_position(mint, tokens_bought, sol_spent, entry_price, sig),
\* with the entry price buy_token passes for these amounts
SaveBuyPositionCall(mint, tokens_bought, sol_spent) ==
    /\ pc = "idle"
    /\ \E readOk \in BOOLEAN, io \in WriteOutcomes :
         /\ ledger' = SaveBuyPosition(ledger, mint, tokens_bought, sol_spent,
                                      EntryPrice(sol_spent, tokens_bought),
                                      now, readOk, io)
         /\ call' = [Call("save", mint, sol_spent, TRUE, FALSE, "none", FALSE,
                          {}, <<>>, "none",
                          TradeResult(FALSE, NoneStr, NoneStr, tokens_bought,
                                      None, sol_spent, None,
                                      EntryPrice(sol_spent, tokens_bought)),
                          ledger)
                       EXCEPT !.io = io, !.readOk = readOk]
    /\ UNCHANGED <<wallet, now, pc, curve, pools, stat, probe, run, tasks, lsn, sdk>>

\* sdk.remove_position(mint)
RemovePositionCall(mint) ==
    /\ pc = "idle"
    /\ \E readOk \in BOOLEAN, io \in WriteOutcomes :
         /\ ledger' = RemovePosition(ledger, mint, readOk, io)
         /\ call' = [Call("remove", mint, 0, TRUE, FALSE, "none", FALSE,
                          {}, <<>>, "none", NoResult, ledger)
                       EXCEPT !.io = io, !.readOk = readOk]
    /\ UNCHANGED <<wallet, now, pc, curve, pools, stat, probe, run, tasks, lsn, sdk>>

Next ==
    \/ Tick
    \/ \E mint \in MintStrings, lamports \in 0 .. MaxLamports :
          BuyTokenStart(mint, lamports)
    \/ BuyTokenCurve
    \/ BuyTokenPool
    \/ \E mint \in MintStrings : SellTokenStart(mint)
    \/ SellTokenCurve
    \/ SellTokenPool
    \/ \E mint \in Mints, tokens_bought \in 1 .. MaxTokens,
          sol_spent \in 1 .. MaxLamports :
          SaveBuyPositionCall(mint, tokens_bought, sol_spent)
    \/ \E mint \in Mints : RemovePositionCall(mint)

Spec == Init /\ [][Next]_vars

\* a buy_token or sell_token call has returned (or raised)
TradeDone == call.op \in {"buy", "sell"} /\ call.done

\* the venues on which the finished call submitted a transaction
Submitted ==
    { call.trace[k][1] : k \in { i \in DOMAIN call.trace :
        call.trace[i][2] \in {"send_transaction", "seller.execute"} } }

\* the stages other than classification in which the call made remote calls
Touched ==
    { call.trace[k][1] : k \in DOMAIN call.trace } \ {"resolve"}

\* C3 as stated: every buy_token / sell_token call with a wallet configured
\* executes on exactly one venue path, the one of its classification.
Cex_C3_ExactlyOneVenue ==
    (TradeDone /\ wallet) =>
        /\ Cardinality(call.venues) = 1
        /\ call.status = PRE_GRADUATION => call.venues = {"curve"}
        /\ call.status = POST_GRADUATION => call.venues = {"pool"}

\* C3 as amended: a call with a wallet runs at most one venue path, never
\* submits on both venues and touches only the venue of its classification:
\* PRE_GRADUATION runs only the bonding-curve path, POST_GRADUATION only the
\* pool path; it runs exactly one path when the classification returned and,
\* for PRE_GRADUATION, the client became ready, and none otherwise.
Thm_C3_AtMostOneVenue ==
    (TradeDone /\ wallet) =>
        /\ Cardinality(call.venues) <= 1
        /\ Cardinality(Submitted) <= 1
        /\ Submitted \subseteq call.venues
        /\ Touched \subseteq call.venues
        /\ call.status = PRE_GRADUATION =>
              call.venues = IF call.ready THEN {"curve"} ELSE {}
        /\ call.status = POST_GRADUATION => call.venues = {"pool"}
        /\ call.status \notin {PRE_GRADUATION, POST_GRADUATION} =>
              call.venues = {}

Wit_C3_PoolOnly ==
    /\ TradeDone /\ wallet
    /\ call.status = POST_GRADUATION
    /\ call.venues = {"pool"}
    /\ Submitted = {"pool"}

\* C4: a buy_token or sell_token call that returns success=false, or raises,
\* leaves the ledger file exactly as it was before the call.
Thm_C4_FailureKeepsLedger ==
    (TradeDone /\ (call.raised \/ ~call.result.success)) =>
        ledger = call.before

Wit_C4_FailedBuyKeepsPositions ==
    /\ TradeDone /\ call.op = "buy"
    /\ ~call.raised /\ ~call.result.success
    /\ call.fail = "send_transaction"
    /\ Held(ledger) # {}

\* C5: after every buy_token call that returns success=true, on either
\* venue, the ledger holds a position keyed by the bought asset.
Cex_C5_BuyCreatesPosition ==
    (TradeDone /\ call.op = "buy" /\ ~call.raised /\ call.result.success) =>
        \E p \in Held(ledger) : p.mint = call.mint

\* C6: after every sell_token call that returns success=true the ledger
\* holds no position for the sold asset.
Cex_C6_SellRemovesPosition ==
    (TradeDone /\ call.op = "sell" /\ ~call.raised /\ call.result.success) =>
        ~ \E p \in Held(ledger) : p.mint = call.mint

\* C7: the ledger holds at most one position per asset, and a
\* save_buy_position for an asset that already has a position replaces its
\* tokens_owned, sol_invested and entry_price with those of the new buy and
\* leaves the positions of all other assets unchanged.
Cex_C7_OverwriteOnly ==
    /\ \A p, q \in Held(ledger) : p.mint = q.mint => p = q
    /\ (call.op = "save" /\ \E p \in Held(call.before) : p.mint = call.mint) =>
          /\ \E p \in Held(ledger) :
                /\ p.mint = call.mint
                /\ p.tokens_owned = call.result.tokens_bought
                /\ p.sol_invested = call.result.sol_spent
                /\ p.entry_price = call.result.price
          /\ { p \in Held(ledger) : p.mint # call.mint }
                = { p \in Held(call.before) : p.mint # call.mint }

Cex_C11_NeverRaises ==
    TradeDone =>
        /\ ~call.raised
        /\ ~call.result.success => call.result.error # NoneStr

\* C11 as amended: with a wallet configured, buy_token and sell_token always
\* return a TradeResult; every failure of the classification, of a read, of
\* the simulation, of send or of confirm gives success=false with error set,
\* and nothing is raised to the caller.
Thm_C11_FailuresReturned ==
    (TradeDone /\ wallet) =>
        /\ ~call.raised
        /\ ~call.result.success => call.result.error # NoneStr
        /\ call.result.success => call.result.error = NoneStr
        /\ (call.fail # "none" \/ call.status = "raised" \/ call.venues = {})
              => ~call.result.success

Wit_C11_ConfirmFailureReturned ==
    /\ TradeDone /\ wallet /\ ~call.raised
    /\ call.op = "sell" /\ call.venues = {"pool"}
    /\ call.fail = "confirm_transaction"
    /\ ~call.result.success
    /\ call.result.error = "confirmation timed out"

\* C12: without a wallet, buy_token and sell_token fail with the no-wallet
\* error before any remote call is made and leave the ledger unchanged.
Thm_C12_NoWalletNoCalls ==
    (TradeDone /\ ~wallet) =>
        /\ call.raised
        /\ call.result = NoWallet
        /\ call.trace = <<>>
        /\ call.venues = {}
        /\ ledger = call.before

Wit_C12_NoWalletSell ==
    /\ TradeDone /\ ~wallet
    /\ call.op = "sell" /\ call.mint \in Mints
    /\ call.raised
    /\ Held(ledger) # {}

\* the errors of the local failures of a trade: a malformed mint string, a
\* missing curve account, curve data that does not decode, non-positive
\* virtual reserves, and in the pool sell an unreadable or zero balance
LocalErrors ==
    { "Invalid Base58 string", "Bonding curve account not found",
      "creator key: wrong size", "Invalid bonding curve reserves",
      "Could not get token balance - do you have any tokens to sell?",
      "No tokens to sell" }

\* the remote calls of the finished call, without their stage
Called == { call.trace[k][2] : k \in DOMAIN call.trace }

\* C13: a trade that fails locally (malformed mint, missing curve account,
\* undecodable snapshot, non-positive reserves, zero or unreadable balance
\* in the pool sell) never calls simulate_transaction or send_transaction,
\* and its outcome is Failed.
Thm_C13_LocalFailureOffline ==
    (TradeDone /\ wallet /\ call.result.error \in LocalErrors) =>
        /\ ~call.result.success
        /\ "simulate_transaction" \notin Called
        /\ "send_transaction" \notin Called
        /\ "confirm_transaction" \notin Called

Wit_C13_BadReserves ==
    /\ TradeDone /\ wallet /\ call.op = "buy"
    /\ call.result.error = "Invalid bonding curve reserves"
    /\ call.fail = "none"
    /\ call.trace[Len(call.trace)] = <<"curve", "get_account_info">>

Wit_C13_ZeroBalance ==
    /\ TradeDone /\ wallet /\ call.op = "sell"
    /\ call.result.error = "No tokens to sell"
    /\ call.trace[Len(call.trace)] = <<"pool", "get_token_account_balance(user)">>

\* C14: on the pool venue, when the simulation rejects the transaction,
\* send_transaction is not called and the call returns Failed with the
\* simulation error carried unchanged in the error field, for buy and sell.
Thm_C14_SimulationRejects ==
    (TradeDone /\ wallet /\ call.fail \in SimErrors
        /\ "simulate_transaction" \in Called) =>
        /\ call.venues = {"pool"}
        /\ ~call.result.success
        /\ call.result.error = SimulationFailed(call.fail)
        /\ call.trace[Len(call.trace)] = <<"pool", "simulate_transaction">>
        /\ "send_transaction" \notin Called
        /\ ledger = call.before

Wit_C14_BuyRejected ==
    /\ TradeDone /\ wallet /\ call.op = "buy"
    /\ call.fail = "InstructionError"
    /\ call.result.error = "Transaction simulation failed: InstructionError"
    /\ "simulate_transaction" \in Called

Wit_C14_SellRejected ==
    /\ TradeDone /\ wallet /\ call.op = "sell"
    /\ call.fail = "InsufficientFundsForRent"
    /\ "simulate_transaction" \in Called
    /\ ~call.result.success

\* a buy_token call has returned after the rewrite of buy.json failed
WriteFailed ==
    call.op = "buy" /\ call.done /\ call.io \in WriteOutcomes \ {"ok"}

\* C29 as stated: when a buy succeeds on-chain and the ledger write that
\* follows fails, buy_token still returns the success outcome with its
\* signature, nothing is raised, and the ledger holds no position for that
\* asset.
Cex_C29_NoPositionForAsset ==
    WriteFailed
        => /\ call.result.success /\ call.result.signature # NoneStr
           /\ ~call.raised
           /\ ~\E p \in Held(ledger) : p.mint = call.mint

\* C29: when a buy succeeds on-chain and the ledger write that follows
\* fails, buy_token still returns the success outcome with its signature and
\* raises nothing, and the ledger gains no position: it is left as it was
\* before the call when the file cannot be opened (a position the asset had
\* before stays), and holds no position at all when the write fails after
\* the file was opened.
Thm_C29_WriteFailureUnreported ==
    WriteFailed
        => /\ call.result.success /\ call.result.signature # NoneStr
           /\ ~call.raised
           /\ IF call.io = "open_fails"
                THEN ledger = call.before
                ELSE Held(ledger) = {}

Wit_C29_StalePositionStays ==
    /\ WriteFailed /\ call.io = "open_fails"
    /\ \E p \in Held(ledger) : p.mint = call.mint

\* C39: a ledger read that fails never causes existing positions to be
\* lost: if _load_positions cannot parse the ledger file or one of its
\* entries, a following save_buy_position or remove_position (whose own
\* write succeeds) does not rewrite the file with the other assets'
\* positions dropped.
Cex_C39_FailedReadKeepsPositions ==
    (call.op \in {"buy", "save", "remove"} /\ call.done
        /\ ~call.readOk /\ call.io = "ok")
        => \A p \in call.before.positions :
              p.mint # call.mint => p \in ledger.positions

(***************************************************************************)
(* The functions that send a transaction, one run each: the standalone     *)
(* buy_pump_fun_token step by step, and the three SDK paths                *)
(***************************************************************************)

\* the calls buy_pump_fun_token makes before its send loop
StandaloneSteps == <<"get_account_info", "get_latest_blockhash">>

RECURSIVE Pow2(_)
\* 2 ** attempt
Pow2(k) == IF k = 0 THEN 1 ELSE 2 * Pow2(k - 1)

\* a run about to start: buy_pump_fun_token with its max_retries argument,
\* or one of the SDK paths
SendRuns ==
    { [NoRun EXCEPT !.kind = "standalone", !.pc = "start", !.lamports = l,
                    !.max_retries = n] :
          l \in 0 .. MaxLamports, n \in 0 .. MaxRetries }
      \cup { [NoRun EXCEPT !.kind = k, !.pc = "start", !.lamports = l] :
               k \in {"curve_buy", "pool_buy", "pool_sell"},
               l \in 0 .. MaxLamports }

InitSend ==
    /\ wallet = TRUE
    /\ ledger = EmptyLedger
    /\ now = 0
    /\ pc = "idle"
    /\ call = NoCall
    /\ curve = NoChainCurve
    /\ pools = <<>>
    /\ stat = NoStat
    /\ probe = NoProbe
    /\ run \in SendRuns
    /\ tasks = NoTasks
    /\ lsn = NoListeners
    /\ sdk = NoSdk

\* the run ends by raising e after the calls in trace
RunRaises(trace, e) ==
    run' = [run EXCEPT !.pc = "done", !.raised = TRUE, !.error = e,
                       !.trace = trace]

\* buy_pump_fun_token up to its send loop: get_pump_curve_state with the
\* BondingCurveState decode, calculate_pump_curve_price, the instruction,
\* get_latest_blockhash; nothing here is caught
StandalonePrepare(acct, disc_ok, fail) ==
    /\ run.kind = "standalone" /\ run.pc = "start"
    /\ IF fail = "get_account_info"
         THEN RunRaises(Upto(StandaloneSteps, "get_account_info"), "rpc error")
       ELSE IF ~acct.found
         THEN RunRaises(Upto(StandaloneSteps, "get_account_info"),
                        "Invalid curve state: No data")
       ELSE IF ~disc_ok
         THEN RunRaises(Upto(StandaloneSteps, "get_account_info"),
                        "Invalid curve state discriminator")
       ELSE IF ~CreatorDecodes(acct)
         THEN RunRaises(Upto(StandaloneSteps, "get_account_info"),
                        "creator key: wrong size")
       ELSE IF acct.vtr <= 0 \/ acct.vsr <= 0
         THEN RunRaises(Upto(StandaloneSteps, "get_account_info"),
                        "Invalid reserve state")
       ELSE IF fail = "get_latest_blockhash"
         THEN RunRaises(StandaloneSteps, "rpc error")
       ELSE run' = [run EXCEPT !.pc = "loop", !.trace = StandaloneSteps]
    /\ UNCHANGED <<wallet, ledger, now, pc, call, curve, pools, stat, probe, tasks, lsn, sdk>>

StandaloneAttemptConstantWait(sendOk, confirmOk) ==
    /\ run.kind = "standalone" /\ run.pc = "loop"
    /\ run.attempt < run.max_retries
    /\ LET sent == run.trace \o <<"send_transaction">>
                     \o (IF sendOk THEN <<"confirm_transaction">> ELSE <<>>)
       IN  IF sendOk /\ confirmOk
             THEN run' = [run EXCEPT !.pc = "done", !.signature = TxSig,
                                     !.trace = sent]
           ELSE IF run.attempt < run.max_retries - 1
             THEN run' = [run EXCEPT !.attempt = @ + 1,
                                     !.waits = Append(@, 1),
                                     !.trace = sent \o <<"sleep">>]
           ELSE RunRaises(sent, "Failed after max_retries attempts")
    /\ UNCHANGED <<wallet, ledger, now, pc, call, curve, pools, stat, probe, tasks, lsn, sdk>>

StandaloneAttemptOffByOne(sendOk, confirmOk) ==
    /\ run.kind = "standalone" /\ run.pc = "loop"
    /\ run.attempt <= run.max_retries
    /\ LET sent == run.trace \o <<"send_transaction">>
                     \o (IF sendOk THEN <<"confirm_transaction">> ELSE <<>>)
       IN  IF sendOk /\ confirmOk
             THEN run' = [run EXCEPT !.pc = "done", !.signature = TxSig,
                                     !.trace = sent]
           ELSE IF run.attempt < run.max_retries
             THEN run' = [run EXCEPT !.attempt = @ + 1,
                                     !.waits = Append(@, Pow2(run.attempt)),
                                     !.trace = sent \o <<"sleep">>]
           ELSE RunRaises(sent, "Failed after max_retries attempts")
    /\ UNCHANGED <<wallet, ledger, now, pc, call, curve, pools, stat, probe, tasks, lsn, sdk>>

\* one iteration of "for attempt in range(max_retries)": send, confirm and
\* return the signature; on an exception sleep 2 ** attempt and go on, or
\* raise after the last attempt
StandaloneAttempt(sendOk, confirmOk) ==
    /\ run.kind = "standalone" /\ run.pc = "loop"
    /\ run.attempt < run.max_retries
    /\ LET sent == run.trace \o <<"send_transaction">>
                     \o (IF sendOk THEN <<"confirm_transaction">> ELSE <<>>)
       IN  IF sendOk /\ confirmOk
             THEN run' = [run EXCEPT !.pc = "done", !.signature = TxSig,
                                     !.trace = sent]
           ELSE IF run.attempt < run.max_retries - 1
             THEN run' = [run EXCEPT !.attempt = @ + 1,
                                     !.waits = Append(@, Pow2(run.attempt)),
                                     !.trace = sent \o <<"sleep">>]
           ELSE RunRaises(sent, "Failed after max_retries attempts")
    /\ UNCHANGED <<wallet, ledger, now, pc, call, curve, pools, stat, probe, tasks, lsn, sdk>>

\* range(max_retries) is exhausted without a return or a raise: the
\* function falls off its end and returns None
StandaloneFallsThrough ==
    /\ run.kind = "standalone" /\ run.pc = "loop"
    /\ run.attempt >= run.max_retries
    /\ run' = [run EXCEPT !.pc = "done"]
    /\ UNCHANGED <<wallet, ledger, now, pc, call, curve, pools, stat, probe, tasks, lsn, sdk>>

\* an SDK path ran and returned r
PathReturns(r) ==
    /\ run' = [run EXCEPT !.pc = "done", !.trace = r.trace,
                          !.signature = r.result.signature,
                          !.error = r.result.error]
    /\ UNCHANGED <<wallet, ledger, now, pc, call, curve, pools, stat, probe, tasks, lsn, sdk>>

\* one run of _buy_token_pumpfun
CurveBuyRun ==
    /\ run.kind = "curve_buy" /\ run.pc = "start"
    /\ \E acct \in CurveAccounts, fail \in FailPoints(PumpfunBuySteps) :
         PathReturns(BuyTokenPumpfun(run.lamports, acct, fail))

\* one run of _buy_token_pumpswap
PoolBuyRun ==
    /\ run.kind = "pool_buy" /\ run.pc = "start"
    /\ \E mint \in Mints : \E scan \in ScanOutcomes[mint], pool_price \in 0 .. 1,
          fail \in PoolFailPoints(PumpswapBuySteps) :
         /\ (fail = "get_program_accounts") <=> ~scan.ok
         /\ PathReturns(BuyTokenPumpswap(scan, pool_price, fail))

\* one run of _sell_token_pumpswap
PoolSellRun ==
    /\ run.kind = "pool_sell" /\ run.pc = "start"
    /\ \E mint \in Mints : \E scan \in ScanOutcomes[mint],
          token_balance \in 0 .. MaxTokens,
          fail \in PoolFailPoints(PumpswapSellSteps) :
         /\ (fail = "get_program_accounts") <=> ~scan.ok
         /\ PathReturns(SellTokenPumpswap(scan, token_balance, fail))

NextSend ==
    \/ \E acct \in CurveAccounts, disc_ok \in BOOLEAN,
          fail \in FailPoints(StandaloneSteps) :
          StandalonePrepare(acct, disc_ok, fail)
    \/ \E sendOk, confirmOk \in BOOLEAN : StandaloneAttempt(sendOk, confirmOk)
    \/ StandaloneFallsThrough
    \/ CurveBuyRun
    \/ PoolBuyRun
    \/ PoolSellRun

SpecSend == InitSend /\ [][NextSend]_vars

\* how many times the run called send_transaction
Sends ==
    Cardinality({ k \in DOMAIN run.trace : run.trace[k] = "send_transaction" })

\* C15 as stated: within one call send_transaction is called at most once,
\* whatever the outcome of send or confirm, in the SDK bonding-curve buy, the
\* pool buy and sell, and the standalone buy_pump_fun_token.
Cex_C15_SendAtMostOnce == Sends <= 1

\* C15 as amended: the SDK paths call send_transaction at most once per
\* call; buy_pump_fun_token calls it at most max_retries times, one more
\* time only after an attempt whose send or confirm failed, and never again
\* after an attempt that was sent and confirmed.
Thm_C15_SendBounded ==
    /\ run.kind # "standalone" => Sends <= 1
    /\ run.kind = "standalone" =>
          /\ Sends <= run.max_retries
          /\ Sends <= run.attempt + 1
          /\ Len(run.waits) = run.attempt
          /\ (run.pc = "loop" /\ run.attempt > 0) => Sends = run.attempt
          /\ run.signature # NoneStr =>
                /\ run.pc = "done"
                /\ run.trace[Len(run.trace)] = "confirm_transaction"

Wit_C15_Resent ==
    /\ run.kind = "standalone" /\ run.pc = "done"
    /\ run.max_retries = 3
    /\ Sends = 3
    /\ run.signature = TxSig

\* every awaited call of a run returns or raises, and every sleep ends
FairSpecSend == SpecSend /\ WF_vars(NextSend)

\* the state of the send loop of buy_pump_fun_token agrees with its bounds
SendLoopBounded ==
    run.kind = "standalone" =>
        /\ Sends <= run.max_retries
        /\ \A k \in DOMAIN run.waits : run.waits[k] = Pow2(k - 1)
        /\ Len(run.waits) = run.attempt
        /\ Len(run.waits) < run.max_retries \/ run.max_retries = 0
        /\ run.signature # NoneStr =>
              /\ run.pc = "done" /\ ~run.raised
              /\ Sends = run.attempt + 1
              /\ run.trace[Len(run.trace)] = "confirm_transaction"
        /\ (run.raised /\ Sends > 0) =>
              /\ Sends = run.max_retries
              /\ Len(run.waits) = run.max_retries - 1
              /\ run.trace[Len(run.trace)] # "sleep"

\* C30: the send loop of buy_pump_fun_token is bounded: it makes at most
\* max_retries send attempts, after the k-th failed attempt (k from 0) that
\* is not the last it waits 2^k seconds before the next attempt, it returns
\* as soon as one attempt is sent and confirmed, after the last failed
\* attempt it raises without waiting, and every run ends.
Thm_C30_SendLoopTerminates == []SendLoopBounded /\ <>(run.pc = "done")

Wit_C30_AllAttemptsFail ==
    /\ run.kind = "standalone" /\ run.pc = "done" /\ run.raised
    /\ run.max_retries = 4
    /\ run.waits = <<1, 2, 4>>

\* C40: buy_pump_fun_token either returns the signature of a transaction
\* that was sent and confirmed or raises an exception, for every value of
\* max_retries including 0; it never returns without a signature.
Cex_C40_SignatureOrRaise ==
    (run.kind = "standalone" /\ run.pc = "done") =>
        \/ run.raised
        \/ /\ run.signature = TxSig
           /\ run.trace[Len(run.trace)] = "confirm_transaction"

\* the positions of a remote call in the trace of the trade call
Pos(e) == { k \in DOMAIN call.trace : call.trace[k] = e }

\* every occurrence of b comes after an occurrence of a
Precedes(a, b) == \A j \in Pos(b) : \E i \in Pos(a) : i < j

\* C16: a trade call passes through Resolving, Pricing, Building, Simulating
\* (pool venue only), Submitting, Confirming in this order: a transaction is
\* submitted only after the venue is resolved, the reserves are read and the
\* blockhash of the built transaction is fetched; a simulation happens only
\* on the pool venue and comes right before every pool submission, and never
\* on the curve venue; confirmation follows submission and success is
\* reached only after it.
Thm_C16_StateOrder ==
    (call.op \in {"buy", "sell"} /\ wallet) =>
        /\ \A v \in {"curve", "pool"} :
             /\ \A j \in Pos(<<v, "send_transaction">>) :
                   /\ \E i \in 1 .. j - 1 : call.trace[i][1] = "resolve"
                   /\ call.trace[j - 1] =
                        IF v = "pool" THEN <<v, "simulate_transaction">>
                                      ELSE <<v, "get_latest_blockhash">>
             /\ Precedes(<<v, "get_latest_blockhash">>, <<v, "send_transaction">>)
             /\ \A j \in Pos(<<v, "confirm_transaction">>) :
                   call.trace[j - 1] = <<v, "send_transaction">>
        /\ Precedes(<<"curve", "get_account_info">>, <<"curve", "send_transaction">>)
        /\ Precedes(<<"pool", "get_token_account_balance(base)">>,
                    <<"pool", "get_latest_blockhash">>)
        /\ Precedes(<<"pool", "get_token_account_balance(quote)">>,
                    <<"pool", "get_latest_blockhash">>)
        /\ Pos(<<"curve", "simulate_transaction">>) = {}
        /\ Pos(<<"pool", "simulate_transaction">>) # {} =>
              call.status = POST_GRADUATION
        /\ (call.done /\ call.result.success /\ "send_transaction" \in Called) =>
              call.trace[Len(call.trace)][2] = "confirm_transaction"

Wit_C16_PoolOrder ==
    /\ TradeDone /\ wallet /\ call.op = "buy"
    /\ call.result.success
    /\ Pos(<<"pool", "simulate_transaction">>) # {}
    /\ Pos(<<"pool", "send_transaction">>) # {}

Wit_C16_CurveOrder ==
    /\ TradeDone /\ wallet /\ call.op = "buy"
    /\ call.result.success
    /\ Pos(<<"curve", "send_transaction">>) # {}
    /\ "simulate_transaction" \notin Called

(***************************************************************************)
(* The price and amount functions, one call each on drawn arguments        *)
(***************************************************************************)

LAMPORTS_PER_SOL == 1000000000

\* a function call that returned v, or raised e
Returns(v) == [raised |-> FALSE, error |-> NoneStr, value |-> v]
Throws(e) == [raised |-> TRUE, error |-> e, value |-> None]

\* a float price in SOL per token, kept as an exact fraction
Ratio(num, den) == [num |-> num, den |-> den]

\* (virtual_sol_reserves / LAMPORTS_PER_SOL)
\*     / (virtual_token_reserves / 10**TOKEN_DECIMALS), with the common
\* factor 10**6 of the two divisors cancelled
CurvePrice(vtr, vsr) ==
    Ratio(vsr, vtr * (LAMPORTS_PER_SOL \div TOKEN_UNIT))

\* TradingBotSDK.calculate_token_price
CalculateTokenPrice(vtr, vsr) ==
    IF vtr <= 0 \/ vsr <= 0
        THEN Throws("Invalid reserve state")
        ELSE Returns(CurvePrice(vtr, vsr))

\* calculate_pump_curve_price of the standalone buy
CalculatePumpCurvePrice(vtr, vsr) ==
    IF vtr <= 0 \/ vsr <= 0
        THEN Throws("Invalid reserve state")
        ELSE Returns(CurvePrice(vtr, vsr))

\* float(resp.value.ui_amount or 0)
UiAmount(v) == IF Truthy(v) THEN v ELSE 0

\* TradingBotSDK._calculate_pumpswap_price on the two balances read
CalculatePumpswapPrice(base_ui, quote_ui) ==
    LET base_amount == UiAmount(base_ui)
        quote_amount == UiAmount(quote_ui)
    IN  IF base_amount = 0
            THEN Returns(Ratio(0, 1))
            ELSE Returns(Ratio(quote_amount, base_amount))

\* reserves handed to the curve functions, and balances the pool reports
CurveReserveArgs == -1 .. MaxReserve
PoolBalances == {None} \cup 0 .. MaxReserve

NoOut == Throws(NoneStr)

\* the arguments of one call of a function
MathCall(fn, a, b, x, sol, pct) ==
    [called |-> FALSE, fn |-> fn, a |-> a, b |-> b, x |-> x, sol |-> sol,
     pct |-> pct, out |-> NoOut]

PriceInputs ==
    { MathCall(fn, a, b, 0, Ratio(0, 1), 0) :
        fn \in {"calculate_token_price", "calculate_pump_curve_price"},
        a \in CurveReserveArgs, b \in CurveReserveArgs }
      \cup { MathCall("_calculate_pumpswap_price", a, b, 0, Ratio(0, 1), 0) :
               a \in PoolBalances, b \in PoolBalances }

\* the call of the function named fn returns out
MathReturn(fn, out) ==
    /\ ~probe.called /\ probe.fn = fn
    /\ probe' = [probe EXCEPT !.called = TRUE, !.out = out]
    /\ UNCHANGED <<wallet, ledger, now, pc, call, curve, pools, stat, run, tasks, lsn, sdk>>

CalculateTokenPriceCall ==
    MathReturn("calculate_token_price", CalculateTokenPrice(probe.a, probe.b))

CalculatePumpCurvePriceCall ==
    MathReturn("calculate_pump_curve_price",
               CalculatePumpCurvePrice(probe.a, probe.b))

CalculatePumpswapPriceCall ==
    MathReturn("_calculate_pumpswap_price",
               CalculatePumpswapPrice(probe.a, probe.b))

\* int(sol_amount * 1_000_000_000) for a SOL amount num/den whose
\* denominator divides 10**9
IntLamports(sol) == sol.num * (LAMPORTS_PER_SOL \div sol.den)

CalculateBuyAmountNoImpact(vtr, vsr, sol_amount) ==
    IF vtr <= 0 \/ vsr <= 0
        THEN 0
        ELSE LET sol_lamports == IntLamports(sol_amount)
                 tokens_out == (vtr * sol_lamports) \div vsr
             IN  IF tokens_out > 0 THEN tokens_out ELSE 0

CalculateBuyAmountRoundUp(vtr, vsr, sol_amount) ==
    IF vtr <= 0 \/ vsr <= 0
        THEN 0
        ELSE LET sol_lamports == IntLamports(sol_amount)
                 tokens_out == (vtr * sol_lamports + vsr + sol_lamports - 1)
                                  \div (vsr + sol_lamports)
             IN  IF tokens_out > 0 THEN tokens_out ELSE 0

\* TradingBotSDK.calculate_buy_amount(curve_state, sol_amount)
CalculateBuyAmount(vtr, vsr, sol_amount) ==
    IF vtr <= 0 \/ vsr <= 0
        THEN 0
        ELSE LET sol_lamports == IntLamports(sol_amount)
                 tokens_out == (vtr * sol_lamports) \div (vsr + sol_lamports)
             IN  IF tokens_out > 0 THEN tokens_out ELSE 0

CalculateSellAmountUnswapped(vtr, vsr, token_amount) ==
    IF vtr <= 0 \/ vsr <= 0
        THEN 0
        ELSE LET sol_out == (vtr * token_amount) \div (vsr + token_amount)
             IN  IF sol_out > 0 THEN sol_out ELSE 0

\* TradingBotSDK.calculate_sell_amount(curve_state, token_amount)
CalculateSellAmount(vtr, vsr, token_amount) ==
    IF vtr <= 0 \/ vsr <= 0
        THEN 0
        ELSE LET sol_out == (vsr * token_amount) \div (vtr + token_amount)
             IN  IF sol_out > 0 THEN sol_out ELSE 0

\* slippage fractions in hundredths: 0, the SDK default 0.05 and the
\* default 0.25 of the standalone and pool functions
SlippagePcts == {0, 5, 25}

\* _buy_token_pumpfun: amount_lamports = int(sol_amount * 1_000_000_000),
\* max_amount_lamports = int(amount_lamports * (1 + slippage))
MaxAmountLamports(sol_amount, pct) ==
    LET amount_lamports == IntLamports(sol_amount)
    IN  (amount_lamports * (100 + pct)) \div 100

\* buy_pump_fun_token: the same two lines
StandaloneMaxAmountLamports(sol_amount, pct) ==
    LET amount_lamports == IntLamports(sol_amount)
    IN  (amount_lamports * (100 + pct)) \div 100

\* _buy_pump_swap_token:
\* max_sol_input = int((sol_amount_to_spend * slippage_factor) * 1_000_000_000)
MaxSolInput(sol_amount, pct) ==
    (sol_amount.num * (100 + pct) * (LAMPORTS_PER_SOL \div sol_amount.den))
        \div 100

\* SOL amounts of a whole number of lamports, and one whole SOL
LamportArgs == { Ratio(n, LAMPORTS_PER_SOL) : n \in 0 .. MaxAmount }
OneSol == Ratio(1, 1)

\* the SOL amounts tried against a token reserve a; the product of the
\* reserve and the lamports stays within 32 bits
SolArgs(a) == LamportArgs \cup (IF a \in 1 .. 2 THEN {OneSol} ELSE {})

AmountInputs ==
    UNION { { MakeCall : MakeCall \in
                { MathCall("calculate_buy_amount", a, b, 0, sol, 0) :
                    b \in CurveReserveArgs, sol \in SolArgs(a) }
                \cup { MathCall("calculate_sell_amount", a, b, x, Ratio(0, 1), 0) :
                    b \in CurveReserveArgs, x \in 0 .. MaxAmount } }
            : a \in CurveReserveArgs }

SlippageInputs ==
    { MathCall(fn, 0, 0, 0, sol, pct) :
        fn \in {"max_amount_lamports", "standalone_max_amount_lamports",
                "max_sol_input"},
        sol \in LamportArgs, pct \in SlippagePcts }

\* BondingCurveState.completion_percentage, a float kept as a fraction
CompletionPercentage(token_total_supply, real_token_reserves) ==
    IF token_total_supply <= 0
        THEN Ratio(0, 1)
        ELSE Ratio((token_total_supply - real_token_reserves) * 100,
                   token_total_supply)

\* curve states by token_total_supply (a) and real_token_reserves (b)
CompletionInputs ==
    { MathCall("completion_percentage", a, b, 0, Ratio(0, 1), 0) :
        a \in CurveReserveArgs, b \in 0 .. MaxReserve }

\* the reserves and SOL amounts a bonding-curve buy computes its token
\* amount from
TokenAmountInputs ==
    UNION { { MathCall(fn, a, b, 0, sol, 0) :
                fn \in {"_buy_token_pumpfun.token_amount",
                        "buy_pump_fun_token.token_amount"},
                b \in CurveReserveArgs, sol \in SolArgs(a) }
            : a \in CurveReserveArgs }

InitMath ==
    /\ wallet = TRUE
    /\ ledger = EmptyLedger
    /\ now = 0
    /\ pc = "idle"
    /\ call = NoCall
    /\ curve = NoChainCurve
    /\ pools = <<>>
    /\ stat = NoStat
    /\ probe \in PriceInputs \cup AmountInputs \cup SlippageInputs
                    \cup CompletionInputs \cup TokenAmountInputs
    /\ run = NoRun
    /\ tasks = NoTasks
    /\ lsn = NoListeners
    /\ sdk = NoSdk

CalculateBuyAmountCall ==
    MathReturn("calculate_buy_amount",
               Returns(CalculateBuyAmount(probe.a, probe.b, probe.sol)))

CalculateSellAmountCall ==
    MathReturn("calculate_sell_amount",
               Returns(CalculateSellAmount(probe.a, probe.b, probe.x)))

MaxAmountLamportsCall ==
    MathReturn("max_amount_lamports",
               Returns(MaxAmountLamports(probe.sol, probe.pct)))

StandaloneMaxAmountLamportsCall ==
    MathReturn("standalone_max_amount_lamports",
               Returns(StandaloneMaxAmountLamports(probe.sol, probe.pct)))

MaxSolInputCall ==
    MathReturn("max_sol_input", Returns(MaxSolInput(probe.sol, probe.pct)))

CompletionPercentageCall ==
    MathReturn("completion_percentage",
               Returns(CompletionPercentage(probe.a, probe.b)))

\* the token amount _buy_token_pumpfun packs into its instruction data
TokenAmountCall ==
    MathReturn("_buy_token_pumpfun.token_amount",
               IF probe.a <= 0 \/ probe.b <= 0
                 THEN Throws("Invalid bonding curve reserves")
                 ELSE Returns(TokenAmount(probe.a, probe.b,
                                          IntLamports(probe.sol))))

\* the token amount buy_pump_fun_token packs into its instruction data
StandaloneTokenAmountCall ==
    MathReturn("buy_pump_fun_token.token_amount",
               IF CalculatePumpCurvePrice(probe.a, probe.b).raised
                 THEN CalculatePumpCurvePrice(probe.a, probe.b)
                 ELSE Returns(TokenAmount(probe.a, probe.b,
                                          IntLamports(probe.sol))))

NextMath ==
    \/ CalculateTokenPriceCall
    \/ CalculatePumpCurvePriceCall
    \/ CalculatePumpswapPriceCall
    \/ CalculateBuyAmountCall
    \/ CalculateSellAmountCall
    \/ MaxAmountLamportsCall
    \/ StandaloneMaxAmountLamportsCall
    \/ MaxSolInputCall
    \/ CompletionPercentageCall
    \/ TokenAmountCall
    \/ StandaloneTokenAmountCall

SpecMath == InitMath /\ [][NextMath]_vars

\* a finished call of the function fn
Did(fn) == probe.called /\ probe.fn = fn

\* C17: every price computation fails with an invalid-reserves error when
\* either reserve is non-positive and never returns a price for such a
\* snapshot: calculate_token_price, calculate_pump_curve_price and
\* _calculate_pumpswap_price.
Cex_C17_PriceRejectsBadReserves ==
    /\ ((Did("calculate_token_price") \/ Did("calculate_pump_curve_price"))
           /\ (probe.a <= 0 \/ probe.b <= 0))
         => (probe.out.raised /\ probe.out.error = "Invalid reserve state")
    /\ (Did("_calculate_pumpswap_price")
           /\ (UiAmount(probe.a) <= 0 \/ UiAmount(probe.b) <= 0))
         => probe.out.raised

\* C18 as stated: for positive reserves and every non-negative integer
\* input x, calculate_buy_amount returns floor(base * x / (quote + x)) and
\* calculate_sell_amount the same formula with base and quote swapped, and
\* neither is negative.
Cex_C18_AmountFormulas ==
    /\ (Did("calculate_buy_amount") /\ probe.a > 0 /\ probe.b > 0
            /\ probe.sol.den = 1) =>
          /\ probe.out.value
                = (probe.a * probe.sol.num) \div (probe.b + probe.sol.num)
          /\ probe.out.value >= 0
    /\ (Did("calculate_sell_amount") /\ probe.a > 0 /\ probe.b > 0) =>
          /\ probe.out.value = (probe.b * probe.x) \div (probe.a + probe.x)
          /\ probe.out.value >= 0

\* C18 as amended: for positive reserves, calculate_buy_amount(s, sol_amount)
\* returns floor(base * q / (quote + q)) for q = int(sol_amount * 10^9)
\* lamports; calculate_sell_amount(s, token_amount) returns
\* floor(quote * t / (base + t)) for t = token_amount as passed; hence
\* buy(s, sol_amount) = sell(swap(s), q); neither is negative.
Thm_C18_AmountFormulasInLamports ==
    /\ (Did("calculate_buy_amount") /\ probe.a > 0 /\ probe.b > 0) =>
          LET q == IntLamports(probe.sol)
          IN  /\ probe.out.value = (probe.a * q) \div (probe.b + q)
              /\ probe.out.value = CalculateSellAmount(probe.b, probe.a, q)
              /\ probe.out.value >= 0
              /\ ~probe.out.raised
    /\ (Did("calculate_sell_amount") /\ probe.a > 0 /\ probe.b > 0) =>
          /\ probe.out.value = (probe.b * probe.x) \div (probe.a + probe.x)
          /\ probe.out.value >= 0
          /\ ~probe.out.raised

Wit_C18_OneSolBuy ==
    /\ Did("calculate_buy_amount")
    /\ probe.a = 2 /\ probe.b = 2 /\ probe.sol = OneSol
    /\ probe.out.value = 1

Wit_C18_Sell ==
    /\ Did("calculate_sell_amount")
    /\ probe.a = 1 /\ probe.b = 2 /\ probe.x = 3
    /\ probe.out.value = 1

\* the SOL amounts below the one of the finished calculate_buy_amount call
Smaller ==
    { y \in SolArgs(probe.a) : IntLamports(y) < IntLamports(probe.sol) }

\* C19 as stated: for positive reserves buy_amount_out is strictly
\* increasing in quote_in and always below base_reserves.
Cex_C19_StrictlyIncreasing ==
    (Did("calculate_buy_amount") /\ probe.a > 0 /\ probe.b > 0) =>
        /\ \A y \in Smaller :
              CalculateBuyAmount(probe.a, probe.b, y) < probe.out.value
        /\ probe.out.value < probe.a

\* C19 as amended: for positive reserves buy_amount_out is non-decreasing
\* in quote_in (q1 < q2 implies out(q1) <= out(q2)) and always below
\* base_reserves.
Thm_C19_NonDecreasing ==
    (Did("calculate_buy_amount") /\ probe.a > 0 /\ probe.b > 0) =>
        /\ \A y \in Smaller :
              CalculateBuyAmount(probe.a, probe.b, y) <= probe.out.value
        /\ probe.out.value < probe.a

Wit_C19_Plateau ==
    /\ Did("calculate_buy_amount")
    /\ probe.a = 2 /\ probe.b = 1
    /\ IntLamports(probe.sol) = 2
    /\ CalculateBuyAmount(2, 1, Ratio(1, LAMPORTS_PER_SOL)) = probe.out.value

\* ceil(n / d) for n >= 0
Ceil(n, d) == (n + d - 1) \div d

\* C20: the slippage limit of a buy is
\* max_quote_in = ceil(intended_quote_in * (1 + slippage)) lamports, for
\* every amount and slippage, in the SDK curve buy, the standalone buy and
\* the pool buy.
Cex_C20_SlippageCeil ==
    (Did("max_amount_lamports") \/ Did("standalone_max_amount_lamports")
        \/ Did("max_sol_input")) =>
        probe.out.value
            = Ceil(IntLamports(probe.sol) * (100 + probe.pct), 100)

\* calculate_buy_amount or calculate_sell_amount was applied to positive
\* virtual reserves
AmountOnValidCurve(fn) == Did(fn) /\ probe.a > 0 /\ probe.b > 0

\* C31 as stated: for every curve state with positive virtual reserves and
\* every positive SOL amount calculate_buy_amount returns a strictly positive
\* token amount, and calculate_sell_amount returns a non-negative amount for
\* every positive token amount.
Cex_C31_BuyAmountPositive ==
    /\ (AmountOnValidCurve("calculate_buy_amount") /\ probe.sol.num > 0)
          => probe.out.value > 0
    /\ (AmountOnValidCurve("calculate_sell_amount") /\ probe.x > 0)
          => probe.out.value >= 0

\* C31: for every curve state with positive virtual reserves and every
\* positive SOL amount calculate_buy_amount returns a non-negative token
\* amount, which is strictly positive exactly when virtual_token_reserves *
\* lamports >= virtual_sol_reserves + lamports; calculate_sell_amount
\* returns a non-negative amount for every positive token amount.
Thm_C31_BuyAmountNonNegative ==
    /\ (AmountOnValidCurve("calculate_buy_amount") /\ probe.sol.num > 0)
          => /\ probe.out.value >= 0
             /\ probe.out.value > 0
                  <=> probe.a * IntLamports(probe.sol)
                         >= probe.b + IntLamports(probe.sol)
    /\ (AmountOnValidCurve("calculate_sell_amount") /\ probe.x > 0)
          => probe.out.value >= 0

Wit_C31_DustBuysNothing ==
    /\ AmountOnValidCurve("calculate_buy_amount")
    /\ probe.a = 1 /\ probe.b = 2 /\ IntLamports(probe.sol) = 1
    /\ probe.out.value = 0

\* C32: BondingCurveState.completion_percentage lies between 0 and 100
\* inclusive for every curve state, including states with
\* token_total_supply <= 0 (where it is 0) and states whose
\* real_token_reserves exceed token_total_supply.
Cex_C32_CompletionInRange ==
    Did("completion_percentage") =>
        /\ 0 <= probe.out.value.num
        /\ probe.out.value.num <= 100 * probe.out.value.den
        /\ probe.a <= 0 => probe.out.value.num = 0

\* C35: the token amount encoded in the bonding-curve buy instruction (and
\* reported as tokens_bought and recorded in the ledger) equals
\* buy_amount_out of the reserves read in the same call,
\* floor(virtual_token_reserves * lamports / (virtual_sol_reserves +
\* lamports)), and so is never larger than what the constant-product curve
\* delivers for the quote amount.
Cex_C35_EncodedIsBuyAmountOut ==
    ((Did("_buy_token_pumpfun.token_amount")
        \/ Did("buy_pump_fun_token.token_amount")) /\ ~probe.out.raised)
        => probe.out.value = CalculateBuyAmount(probe.a, probe.b, probe.sol)

(***************************************************************************)
(* The account-data readers, one call each on a drawn buffer               *)
(***************************************************************************)

\* width in bytes of a field of a fixed layout
Width(type) ==
    CASE type = "u8" -> 1
      [] type = "u16" -> 2
      [] type = "u64" -> 8
      [] type = "pubkey" -> PUBKEY_LEN

Field(name, type) == [name |-> name, type |-> type]

\* the fields BondingCurveState.__init__ reads after the discriminator
CurveFields ==
    <<Field("virtual_token_reserves", "u64"),
      Field("virtual_sol_reserves", "u64"),
      Field("real_token_reserves", "u64"),
      Field("real_sol_reserves", "u64"),
      Field("token_total_supply", "u64"),
      Field("complete", "u8"),
      Field("creator", "pubkey")>>

\* the fields list of _get_pumpswap_market_data
MarketFields ==
    <<Field("pool_bump", "u8"),
      Field("index", "u16"),
      Field("creator", "pubkey"),
      Field("base_mint", "pubkey"),
      Field("quote_mint", "pubkey"),
      Field("lp_mint", "pubkey"),
      Field("pool_base_token_account", "pubkey"),
      Field("pool_quote_token_account", "pubkey"),
      Field("lp_supply", "u64"),
      Field("coin_creator", "pubkey")>>

\* the number of bytes of the slice data[a:b] of a buffer of len bytes
SliceLen(len, a, b) ==
    IF len <= a THEN 0 ELSE (IF len < b THEN len ELSE b) - a

\* a buffer: its length, and whether its leading 8 bytes are the expected
\* discriminator of the record it is read as
Buffer(len, tag_ok) == [len |-> len, tag_ok |-> tag_ok]

\* a reader that returned the fields read (name and bytes taken for each), or
\* raised
Decoded(fields) == [raised |-> FALSE, error |-> NoneStr, fields |-> fields]
DecodeFails(e) == [raised |-> TRUE, error |-> e, fields |-> <<>>]

\* reading one field at offset: data[offset] raises IndexError past the end,
\* struct.unpack raises unless the slice has the full width,
\* Pubkey.from_bytes raises unless the slice has 32 bytes, and
\* base58.b58encode (strict = FALSE) takes a slice of any length
FieldError(len, offset, type, strict) ==
    LET n == SliceLen(len, offset, offset + Width(type))
    IN  CASE type = "u8" -> IF n = 0 THEN "IndexError" ELSE NoneStr
          [] type \in {"u16", "u64"} ->
                IF n # Width(type) THEN "struct.error" ELSE NoneStr
          [] type = "pubkey" ->
                IF strict /\ n # PUBKEY_LEN THEN "wrong size" ELSE NoneStr

RECURSIVE ReadFields(_, _, _, _, _)
\* the field loop: the remaining fields of the layout read from offset on,
\* after the fields in done
ReadFields(len, offset, fields, strict, done) ==
    IF fields = <<>> THEN Decoded(done)
    ELSE LET f == Head(fields)
             e == FieldError(len, offset, f.type, strict)
         IN  IF e # NoneStr THEN DecodeFails(e)
             ELSE ReadFields(len, offset + Width(f.type), Tail(fields), strict,
                             Append(done, [name |-> f.name,
                                           bytes |-> SliceLen(len, offset,
                                                       offset + Width(f.type))]))

\* length of the discriminator that leads every account record
DiscriminatorLen == Width("u64")

\* data[:8] = EXPECTED_CURVE_DISCRIMINATOR
HasDiscriminator(data) == data.len >= DiscriminatorLen /\ data.tag_ok

\* BondingCurveState.__init__ of the standalone buy
BondingCurveStateInit(data) ==
    IF ~HasDiscriminator(data)
        THEN DecodeFails("Invalid curve state discriminator")
        ELSE ReadFields(data.len, DiscriminatorLen, CurveFields, TRUE, <<>>)

\* the curve parse of _buy_token_pumpfun: the creator key at bytes 49..80,
\* then the two virtual reserves at bytes 8..15 and 16..23
ParseCurveData(data) ==
    IF data.len = 0 THEN DecodeFails("Bonding curve account not found")
    ELSE IF ~CreatorDecodes(data) THEN DecodeFails("wrong size")
    ELSE Decoded(<<[name |-> "creator",
                    bytes |-> SliceLen(data.len, CREATOR_OFFSET,
                                       CREATOR_OFFSET + PUBKEY_LEN)],
                   [name |-> "virtual_token_reserves",
                    bytes |-> SliceLen(data.len, 8, 16)],
                   [name |-> "virtual_sol_reserves",
                    bytes |-> SliceLen(data.len, 16, 24)]>>)

\* _get_pumpswap_market_data on the account data fetched
GetPumpswapMarketData(data) ==
    IF data.len = 0 THEN DecodeFails("Invalid market data")
    ELSE ReadFields(data.len, DiscriminatorLen, MarketFields, FALSE, <<>>)

RECURSIVE LayoutLen(_)
\* bytes taken by a layout
LayoutLen(fields) ==
    IF fields = <<>> THEN 0
    ELSE Width(Head(fields).type) + LayoutLen(Tail(fields))

\* buffer lengths from empty to one byte more than the longest layout
BufferLens == 0 .. POOL_RECORD_LEN + 1

Readers == {"BondingCurveState", "_buy_token_pumpfun", "_get_pumpswap_market_data"}

DecodeCall(fn, data) ==
    [called |-> FALSE, fn |-> fn, data |-> data, out |-> DecodeFails(NoneStr)]

\* a buffer shorter than the discriminator does not carry it
Buffers ==
    { b \in { Buffer(len, tag_ok) : len \in BufferLens, tag_ok \in BOOLEAN } :
        b.tag_ok => b.len >= DiscriminatorLen }

DecodeInputs == { DecodeCall(fn, data) : fn \in Readers, data \in Buffers }

InitDecode ==
    /\ wallet = TRUE
    /\ ledger = EmptyLedger
    /\ now = 0
    /\ pc = "idle"
    /\ call = NoCall
    /\ curve = NoChainCurve
    /\ pools = <<>>
    /\ stat = NoStat
    /\ probe \in DecodeInputs
    /\ run = NoRun
    /\ tasks = NoTasks
    /\ lsn = NoListeners
    /\ sdk = NoSdk

BondingCurveStateInitCall ==
    MathReturn("BondingCurveState", BondingCurveStateInit(probe.data))

ParseCurveDataCall ==
    MathReturn("_buy_token_pumpfun", ParseCurveData(probe.data))

GetPumpswapMarketDataCall ==
    MathReturn("_get_pumpswap_market_data", GetPumpswapMarketData(probe.data))

NextDecode ==
    \/ BondingCurveStateInitCall
    \/ ParseCurveDataCall
    \/ GetPumpswapMarketDataCall

SpecDecode == InitDecode /\ [][NextDecode]_vars

\* the leading 8 bytes of the buffer read differ from the discriminator
WrongTag == ~HasDiscriminator(probe.data)

\* C21: every reserve-snapshot decode rejects a buffer whose leading 8 bytes
\* differ from the expected discriminator and yields no field from it: the
\* standalone curve decoder, the curve parse of the SDK buy and the
\* pool-market reader.
Cex_C21_WrongTagRejected ==
    (probe.called /\ probe.fn \in Readers /\ WrongTag)
        => (probe.out.raised /\ probe.out.fields = <<>>)

\* the fixed layout a reader expects: 8 + 5*8 + 1 + 32 bytes of a curve
\* account, 8 + 1 + 2 + 6*32 + 8 + 32 bytes of a pool record
LayoutOf(fn) ==
    IF fn = "_get_pumpswap_market_data"
        THEN DiscriminatorLen + LayoutLen(MarketFields)
        ELSE DiscriminatorLen + LayoutLen(CurveFields)

\* C22: a reader given a payload shorter than its fixed layout fails and
\* returns no record: the curve decoders below 81 bytes, the pool-market
\* reader below 243 bytes.
Cex_C22_ShortPayloadFails ==
    (probe.called /\ probe.fn \in Readers
        /\ probe.data.len < LayoutOf(probe.fn))
        => probe.out.raised

(***************************************************************************)
(* The pool scan followed by the pool-market reader on the account found   *)
(***************************************************************************)
\* account data lengths around the two thresholds: the scan takes more than
\* 75 bytes, the reader needs 211 bytes for lp_supply and 243 for the record
MarketDataLens ==
    {BASE_MINT_OFFSET + PUBKEY_LEN, BASE_MINT_OFFSET + PUBKEY_LEN + 1,
     POOL_RECORD_LEN - PUBKEY_LEN - 1, POOL_RECORD_LEN - PUBKEY_LEN,
     POOL_RECORD_LEN}

\* program accounts: address, data length, and the 32 bytes at offset 43
MarketAccounts == [pubkey : 1 .. MaxPools, len : MarketDataLens, base_mint : Mints]

MarketLists ==
    { s \in UNION { [1 .. n -> MarketAccounts] : n \in 0 .. MaxPools } :
        \A i, j \in DOMAIN s : i # j => s[i].pubkey # s[j].pubkey }

\* one search for base_mint over the accounts the RPC returns
MarketSearch(accounts, rpc, base_mint) ==
    [called |-> FALSE, fn |-> "_get_pumpswap_market_address",
     accounts |-> accounts, rpc |-> rpc, base_mint |-> base_mint,
     market |-> Raise(NoneStr), read |-> FALSE,
     out |-> DecodeFails(NoneStr), parsed_base_mint |-> NoneStr]

InitMarket ==
    /\ wallet = TRUE
    /\ ledger = EmptyLedger
    /\ now = 0
    /\ pc = "idle"
    /\ call = NoCall
    /\ curve = NoChainCurve
    /\ pools = <<>>
    /\ stat = NoStat
    /\ probe \in { MarketSearch(accounts, rpc, base_mint) :
                     accounts \in MarketLists, rpc \in ScanRpc,
                     base_mint \in Mints }
    /\ run = NoRun
    /\ tasks = NoTasks
    /\ lsn = NoListeners
    /\ sdk = NoSdk

\* market_address = await self._get_pumpswap_market_address(client, mint)
GetPumpswapMarketAddressCall ==
    /\ ~probe.called
    /\ probe' = [probe EXCEPT
                   !.called = TRUE,
                   !.market = ScanMarket(probe.accounts, probe.rpc,
                                         probe.base_mint)]
    /\ UNCHANGED <<wallet, ledger, now, pc, call, curve, pools, stat, run, tasks, lsn, sdk>>

RECURSIVE FieldOffset(_, _, _)
\* the offset the field loop has reached when it reads the field name
FieldOffset(fields, name, offset) ==
    IF Head(fields).name = name THEN offset
    ELSE FieldOffset(Tail(fields), name, offset + Width(Head(fields).type))

\* parsed_data["base_mint"]: the encoding of the 32 bytes the loop takes at
\* its offset; they are the bytes the scan compared when that offset is 43
ParsedBaseMint(account, decoded) ==
    IF decoded.raised THEN NoneStr
    ELSE IF FieldOffset(MarketFields, "base_mint", DiscriminatorLen)
               = BASE_MINT_OFFSET
            /\ \E k \in DOMAIN decoded.fields :
                  /\ decoded.fields[k].name = "base_mint"
                  /\ decoded.fields[k].bytes = PUBKEY_LEN
         THEN account.base_mint
    ELSE "other bytes"

\* market_data = await self._get_pumpswap_market_data(client, market_address)
\* on the address the search returned
GetPumpswapMarketDataOfFound ==
    /\ probe.called /\ probe.market.ok /\ ~probe.read
    /\ LET account == CHOOSE a \in { probe.accounts[i] : i \in DOMAIN probe.accounts } :
                          a.pubkey = probe.market.pubkey
           decoded == GetPumpswapMarketData(Buffer(account.len, TRUE))
       IN  probe' = [probe EXCEPT
                       !.read = TRUE, !.out = decoded,
                       !.parsed_base_mint = ParsedBaseMint(account, decoded)]
    /\ UNCHANGED <<wallet, ledger, now, pc, call, curve, pools, stat, run, tasks, lsn, sdk>>

NextMarket ==
    \/ GetPumpswapMarketAddressCall
    \/ GetPumpswapMarketDataOfFound

SpecMarket == InitMarket /\ [][NextMarket]_vars

\* the accounts the scan looks into: more than 75 bytes, in RPC order
Scanned(i) ==
    probe.accounts[i].len > BASE_MINT_OFFSET + PUBKEY_LEN

\* C33: the pool scan and the pool-market record reader agree on the binary
\* layout: the scan compares the 32 bytes at offset 43 with the asset, so
\* the market it returns for asset M, when parsed by
\* _get_pumpswap_market_data, has base_mint equal to M; the scan returns the
\* first such account in RPC order and ignores accounts of 75 bytes or fewer.
Cex_C33_ScanAgreesWithReader ==
    /\ (probe.called /\ probe.market.ok) =>
          \E i \in DOMAIN probe.accounts :
             /\ probe.accounts[i].pubkey = probe.market.pubkey
             /\ Scanned(i) /\ probe.accounts[i].base_mint = probe.base_mint
             /\ \A j \in 1 .. i - 1 :
                   ~(Scanned(j) /\ probe.accounts[j].base_mint = probe.base_mint)
    /\ probe.read =>
          (~probe.out.raised /\ probe.parsed_base_mint = probe.base_mint)

(***************************************************************************)
(* The transaction builders, one call each on drawn arguments              *)
(***************************************************************************)

\* addresses of trading_bot_sdk.py
SOL_MINT == "So11111111111111111111111111111111111111112"
PUMP_AMM_PROGRAM_ID == "pAMMBay6oceH9fJKBRHGP5D4bD4sWpmSwMn52FMfXEA"
PUMP_SWAP_GLOBAL_CONFIG == "ADyA8hdefvWN2dbGGWFotbzWxrAvLW83WG6QCVXvJKqw"
PUMP_PROTOCOL_FEE_RECIPIENT == "7VtfL8fvgNfhz17qKRMjzQEXgbdpnHHHQRh54R9jP2RJ"
PUMP_PROTOCOL_FEE_RECIPIENT_TOKEN_ACCOUNT == "7GFUN3bWzJMKMRZ34JLsvcqdssDbXnp589SiE33KVwcC"
SYSTEM_TOKEN_PROGRAM == "TokenkegQfeZyiNwAJbNbGKPFXCWuBvf9Ss623VQ5DA"
SYSTEM_PROGRAM == "11111111111111111111111111111111"
SYSTEM_ASSOCIATED_TOKEN_ACCOUNT_PROGRAM == "ATokenGPvbdGVxr1b2hvZbsiqW5xWH25efTNsLJA8knL"
PUMP_SWAP_EVENT_AUTHORITY == "GS4CU59F31iL7aR2Q8zVS8DRrcRnXX1yjQ66TqNVQnaR"

\* the local constants of _buy_token_pumpfun
PUMP_PROGRAM == "6EF8rrecthR5Dkzon8Nwu78hRvfCKubJ14M5uBEwF6P"
PUMP_GLOBAL == "4wTV1YmiEkRvAtNtsSGPtUrqRYQMe5SKy2uB4Jjaxnjf"
PUMP_EVENT_AUTHORITY == "Ce6TQqeHC9p8KetsN6JsjHK7UTZk7nasjjnr7XxXp9F1"
PUMP_FEE == "CebN5WGQ4jvEPvsVU4EoHEpgzq1VV7AbicfhtW4xC9iM"

\* the module constants of pump_fun_buy_fixed.py
PumpFunBuyFixed ==
    [PUMP_PROGRAM |-> "6EF8rrecthR5Dkzon8Nwu78hRvfCKubJ14M5uBEwF6P",
     PUMP_GLOBAL |-> "4wTV1YmiEkRvAtNtsSGPtUrqRYQMe5SKy2uB4Jjaxnjf",
     PUMP_EVENT_AUTHORITY |-> "Ce6TQqeHC9p8KetsN6JsjHK7UTZk7nasjjnr7XxXp9F1",
     PUMP_FEE |-> "CebN5WGQ4jvEPvsVU4EoHEpgzq1VV7AbicfhtW4xC9iM",
     SYSTEM_PROGRAM |-> "11111111111111111111111111111111",
     SYSTEM_TOKEN_PROGRAM |-> "TokenkegQfeZyiNwAJbNbGKPFXCWuBvf9Ss623VQ5DA"]

\* the program of set_compute_unit_limit and set_compute_unit_price
COMPUTE_BUDGET == "ComputeBudget111111111111111111111111111111"

RECURSIVE Join(_)
Join(seeds) ==
    IF seeds = <<>> THEN ""
    ELSE Head(seeds) \o (IF Len(seeds) > 1 THEN "," ELSE "") \o Join(Tail(seeds))

\* Pubkey.find_program_address(seeds, program_id): an address fixed by the
\* seeds and the program
FindProgramAddress(seeds, program_id) ==
    "pda(" \o Join(seeds) \o ";" \o program_id \o ")"

\* spl get_associated_token_address(owner, mint)
GetAssociatedTokenAddress(owner, mint) == "ata(" \o owner \o "," \o mint \o ")"

AccountMeta(pubkey, is_signer, is_writable) ==
    [pubkey |-> pubkey, is_signer |-> is_signer, is_writable |-> is_writable]

Instruction(program_id, name, args, accounts) ==
    [program_id |-> program_id, name |-> name, args |-> args,
     accounts |-> accounts]

SetComputeUnitLimit(units) ==
    Instruction(COMPUTE_BUDGET, "set_compute_unit_limit", <<units>>, <<>>)

SetComputeUnitPrice(micro_lamports) ==
    Instruction(COMPUTE_BUDGET, "set_compute_unit_price", <<micro_lamports>>, <<>>)

\* spl create_idempotent_associated_token_account(payer, owner, mint)
CreateIdempotentAssociatedTokenAccount(payer, owner, mint) ==
    Instruction(SYSTEM_ASSOCIATED_TOKEN_ACCOUNT_PROGRAM,
                "create_idempotent_associated_token_account", <<>>,
                <<AccountMeta(payer, TRUE, TRUE),
                  AccountMeta(GetAssociatedTokenAddress(owner, mint), FALSE, TRUE),
                  AccountMeta(owner, FALSE, FALSE),
                  AccountMeta(mint, FALSE, FALSE),
                  AccountMeta(SYSTEM_PROGRAM, FALSE, FALSE),
                  AccountMeta(SYSTEM_TOKEN_PROGRAM, FALSE, FALSE)>>)

\* solders transfer(TransferParams(from_pubkey, to_pubkey, lamports))
Transfer(from_pubkey, to_pubkey, lamports) ==
    Instruction(SYSTEM_PROGRAM, "transfer", <<lamports>>,
                <<AccountMeta(from_pubkey, TRUE, TRUE),
                  AccountMeta(to_pubkey, FALSE, TRUE)>>)

\* spl sync_native(SyncNativeParams(program_id, account))
SyncNative(program_id, account) ==
    Instruction(program_id, "sync_native", <<>>,
                <<AccountMeta(account, FALSE, TRUE)>>)

\* Message.new_with_blockhash(instructions, payer, blockhash)
Message(instructions, payer) == [instructions |-> instructions, payer |-> payer]

\* the accounts list of _buy_token_pumpfun
PumpfunBuyAccounts(mint_pubkey, wallet_pubkey, creator) ==
    LET bonding_curve ==
            FindProgramAddress(<<"bonding-curve", mint_pubkey>>, PUMP_PROGRAM)
        associated_bonding_curve ==
            GetAssociatedTokenAddress(bonding_curve, mint_pubkey)
        creator_vault ==
            FindProgramAddress(<<"creator-vault", creator>>, PUMP_PROGRAM)
        global_volume ==
            FindProgramAddress(<<"global_volume_accumulator">>, PUMP_PROGRAM)
        user_volume ==
            FindProgramAddress(<<"user_volume_accumulator", wallet_pubkey>>,
                               PUMP_PROGRAM)
        user_ata == GetAssociatedTokenAddress(wallet_pubkey, mint_pubkey)
    IN  <<AccountMeta(PUMP_GLOBAL, FALSE, FALSE),
          AccountMeta(PUMP_FEE, FALSE, TRUE),
          AccountMeta(mint_pubkey, FALSE, FALSE),
          AccountMeta(bonding_curve, FALSE, TRUE),
          AccountMeta(associated_bonding_curve, FALSE, TRUE),
          AccountMeta(user_ata, FALSE, TRUE),
          AccountMeta(wallet_pubkey, TRUE, TRUE),
          AccountMeta(SYSTEM_PROGRAM, FALSE, FALSE),
          AccountMeta(SYSTEM_TOKEN_PROGRAM, FALSE, FALSE),
          AccountMeta(creator_vault, FALSE, TRUE),
          AccountMeta(PUMP_EVENT_AUTHORITY, FALSE, FALSE),
          AccountMeta(PUMP_PROGRAM, FALSE, FALSE),
          AccountMeta(global_volume, FALSE, TRUE),
          AccountMeta(user_volume, FALSE, TRUE)>>

\* the message _buy_token_pumpfun signs and sends
PumpfunBuyMessage(mint_pubkey, wallet_pubkey, creator, token_amount, sol_amount, pct) ==
    LET buy_ix ==
            Instruction(PUMP_PROGRAM, "buy",
                        <<token_amount, MaxAmountLamports(sol_amount, pct)>>,
                        PumpfunBuyAccounts(mint_pubkey, wallet_pubkey, creator))
        idempotent_ata_ix ==
            CreateIdempotentAssociatedTokenAccount(wallet_pubkey, wallet_pubkey,
                                                   mint_pubkey)
    IN  Message(<<SetComputeUnitLimit(300000), SetComputeUnitPrice(10000),
                  idempotent_ata_ix, buy_ix>>, wallet_pubkey)

\* derive_pump_addresses, find_creator_vault, find_global_volume_accumulator
\* and find_user_volume_accumulator of pump_fun_buy_fixed.py
DerivePumpAddresses(mint) ==
    LET bonding_curve ==
            FindProgramAddress(<<"bonding-curve", mint>>,
                               PumpFunBuyFixed.PUMP_PROGRAM)
    IN  <<bonding_curve, GetAssociatedTokenAddress(bonding_curve, mint)>>

FindCreatorVaultUnderscore(creator) ==
    FindProgramAddress(<<"creator_vault", creator>>, PumpFunBuyFixed.PUMP_PROGRAM)

FindCreatorVault(creator) ==
    FindProgramAddress(<<"creator-vault", creator>>, PumpFunBuyFixed.PUMP_PROGRAM)

FindGlobalVolumeAccumulator ==
    FindProgramAddress(<<"global_volume_accumulator">>,
                       PumpFunBuyFixed.PUMP_PROGRAM)

FindUserVolumeAccumulator(user) ==
    FindProgramAddress(<<"user_volume_accumulator", user>>,
                       PumpFunBuyFixed.PUMP_PROGRAM)

\* the accounts list of buy_pump_fun_token
StandaloneBuyAccounts(mint, payer, creator) ==
    LET bonding_curve == DerivePumpAddresses(mint)[1]
        associated_bonding_curve == DerivePumpAddresses(mint)[2]
        creator_vault == FindCreatorVault(creator)
        associated_token_account == GetAssociatedTokenAddress(payer, mint)
    IN  <<AccountMeta(PumpFunBuyFixed.PUMP_GLOBAL, FALSE, FALSE),
          AccountMeta(PumpFunBuyFixed.PUMP_FEE, FALSE, TRUE),
          AccountMeta(mint, FALSE, FALSE),
          AccountMeta(bonding_curve, FALSE, TRUE),
          AccountMeta(associated_bonding_curve, FALSE, TRUE),
          AccountMeta(associated_token_account, FALSE, TRUE),
          AccountMeta(payer, TRUE, TRUE),
          AccountMeta(PumpFunBuyFixed.SYSTEM_PROGRAM, FALSE, FALSE),
          AccountMeta(PumpFunBuyFixed.SYSTEM_TOKEN_PROGRAM, FALSE, FALSE),
          AccountMeta(creator_vault, FALSE, TRUE),
          AccountMeta(PumpFunBuyFixed.PUMP_EVENT_AUTHORITY, FALSE, FALSE),
          AccountMeta(PumpFunBuyFixed.PUMP_PROGRAM, FALSE, FALSE),
          AccountMeta(FindGlobalVolumeAccumulator, FALSE, TRUE),
          AccountMeta(FindUserVolumeAccumulator(payer), FALSE, TRUE)>>

\* the message buy_pump_fun_token signs and sends
StandaloneBuyMessage(mint, payer, creator, token_amount, sol_amount, pct) ==
    LET buy_ix ==
            Instruction(PumpFunBuyFixed.PUMP_PROGRAM, "buy",
                        <<token_amount,
                          StandaloneMaxAmountLamports(sol_amount, pct)>>,
                        StandaloneBuyAccounts(mint, payer, creator))
        idempotent_ata_ix ==
            CreateIdempotentAssociatedTokenAccount(payer, payer, mint)
    IN  Message(<<SetComputeUnitLimit(300000), SetComputeUnitPrice(10000),
                  idempotent_ata_ix, buy_ix>>, payer)

\* _find_coin_creator_vault, _find_global_volume_accumulator and
\* _find_user_volume_accumulator of the SDK
FindCoinCreatorVault(coin_creator) ==
    FindProgramAddress(<<"creator_vault", coin_creator>>, PUMP_AMM_PROGRAM_ID)

SdkFindGlobalVolumeAccumulator ==
    FindProgramAddress(<<"global_volume_accumulator">>, PUMP_AMM_PROGRAM_ID)

SdkFindUserVolumeAccumulator(user) ==
    FindProgramAddress(<<"user_volume_accumulator", user>>, PUMP_AMM_PROGRAM_ID)

\* the fields of the market record handed to the pool builders
MarketField(market_address, name) == market_address \o "." \o name

\* the nineteen accounts the pool buy and the pool sell share
PumpSwapAccounts(market_address, payer, base_mint) ==
    LET pool_base_token_account ==
            MarketField(market_address, "pool_base_token_account")
        pool_quote_token_account ==
            MarketField(market_address, "pool_quote_token_account")
        coin_creator_vault_authority ==
            FindCoinCreatorVault(MarketField(market_address, "coin_creator"))
        coin_creator_vault_ata ==
            GetAssociatedTokenAddress(coin_creator_vault_authority, SOL_MINT)
        user_base_token_account == GetAssociatedTokenAddress(payer, base_mint)
        user_quote_token_account == GetAssociatedTokenAddress(payer, SOL_MINT)
    IN  <<AccountMeta(market_address, FALSE, FALSE),
          AccountMeta(payer, TRUE, TRUE),
          AccountMeta(PUMP_SWAP_GLOBAL_CONFIG, FALSE, FALSE),
          AccountMeta(base_mint, FALSE, FALSE),
          AccountMeta(SOL_MINT, FALSE, FALSE),
          AccountMeta(user_base_token_account, FALSE, TRUE),
          AccountMeta(user_quote_token_account, FALSE, TRUE),
          AccountMeta(pool_base_token_account, FALSE, TRUE),
          AccountMeta(pool_quote_token_account, FALSE, TRUE),
          AccountMeta(PUMP_PROTOCOL_FEE_RECIPIENT, FALSE, FALSE),
          AccountMeta(PUMP_PROTOCOL_FEE_RECIPIENT_TOKEN_ACCOUNT, FALSE, TRUE),
          AccountMeta(SYSTEM_TOKEN_PROGRAM, FALSE, FALSE),
          AccountMeta(SYSTEM_TOKEN_PROGRAM, FALSE, FALSE),
          AccountMeta(SYSTEM_PROGRAM, FALSE, FALSE),
          AccountMeta(SYSTEM_ASSOCIATED_TOKEN_ACCOUNT_PROGRAM, FALSE, FALSE),
          AccountMeta(PUMP_SWAP_EVENT_AUTHORITY, FALSE, FALSE),
          AccountMeta(PUMP_AMM_PROGRAM_ID, FALSE, FALSE),
          AccountMeta(coin_creator_vault_ata, FALSE, TRUE),
          AccountMeta(coin_creator_vault_authority, FALSE, FALSE)>>

\* the accounts list of _buy_pump_swap_token
PumpSwapBuyAccounts(market_address, payer, base_mint) ==
    PumpSwapAccounts(market_address, payer, base_mint)
        \o <<AccountMeta(SdkFindGlobalVolumeAccumulator, FALSE, TRUE),
             AccountMeta(SdkFindUserVolumeAccumulator(payer), FALSE, TRUE)>>

\* the accounts list of _sell_pump_swap_token
PumpSwapSellAccounts(market_address, payer, base_mint) ==
    PumpSwapAccounts(market_address, payer, base_mint)

\* wrap_amount = int((sol_amount_to_spend + sol_amount_to_spend * 0.1)
\*                   * 1_000_000_000)
WrapAmount(sol_amount) ==
    (sol_amount.num * 11 * (LAMPORTS_PER_SOL \div sol_amount.den)) \div 10

PumpSwapBuyMessageSyncFirst(market_address, payer, base_mint, base_amount_out, sol_amount, pct) ==
    LET user_quote_token_account == GetAssociatedTokenAddress(payer, SOL_MINT)
        buy_ix ==
            Instruction(PUMP_AMM_PROGRAM_ID, "buy",
                        <<base_amount_out, MaxSolInput(sol_amount, pct)>>,
                        PumpSwapBuyAccounts(market_address, payer, base_mint))
    IN  Message(<<SetComputeUnitLimit(200000), SetComputeUnitPrice(10000),
                  CreateIdempotentAssociatedTokenAccount(payer, payer, SOL_MINT),
                  SyncNative(SYSTEM_TOKEN_PROGRAM, user_quote_token_account),
                  Transfer(payer, user_quote_token_account,
                           WrapAmount(sol_amount)),
                  CreateIdempotentAssociatedTokenAccount(payer, payer, base_mint),
                  buy_ix>>, payer)

\* the message _buy_pump_swap_token simulates and sends
PumpSwapBuyMessage(market_address, payer, base_mint, base_amount_out, sol_amount, pct) ==
    LET user_quote_token_account == GetAssociatedTokenAddress(payer, SOL_MINT)
        create_wsol_ata_ix ==
            CreateIdempotentAssociatedTokenAccount(payer, payer, SOL_MINT)
        transfer_sol_ix ==
            Transfer(payer, user_quote_token_account, WrapAmount(sol_amount))
        sync_native_ix ==
            SyncNative(SYSTEM_TOKEN_PROGRAM, user_quote_token_account)
        idempotent_ata_ix ==
            CreateIdempotentAssociatedTokenAccount(payer, payer, base_mint)
        buy_ix ==
            Instruction(PUMP_AMM_PROGRAM_ID, "buy",
                        <<base_amount_out, MaxSolInput(sol_amount, pct)>>,
                        PumpSwapBuyAccounts(market_address, payer, base_mint))
    IN  Message(<<SetComputeUnitLimit(200000), SetComputeUnitPrice(10000),
                  create_wsol_ata_ix, transfer_sol_ix, sync_native_ix,
                  idempotent_ata_ix, buy_ix>>, payer)

\* the message _sell_pump_swap_token simulates and sends
PumpSwapSellMessage(market_address, payer, base_mint, token_balance, min_sol_output) ==
    LET sell_ix ==
            Instruction(PUMP_AMM_PROGRAM_ID, "sell",
                        <<token_balance, min_sol_output>>,
                        PumpSwapSellAccounts(market_address, payer, base_mint))
    IN  Message(<<SetComputeUnitLimit(100000), SetComputeUnitPrice(10000),
                  CreateIdempotentAssociatedTokenAccount(payer, payer, SOL_MINT),
                  sell_ix>>, payer)

\* min_sol_output = int((token_balance / 10**6 * token_price_sol
\*                       * (1 - slippage)) * 1_000_000_000), the price in
\* lamports per whole token
MinSolOutput(token_balance, price, pct) ==
    (token_balance * price * (100 - pct)) \div (TOKEN_UNIT * 100)

\* trader keys, creator keys read from a curve account, pool addresses
Wallets == {"walletA", "walletB"}
Creators == {"creatorA", "creatorB"}
Markets == {"market1", "market2"}

\* SOL amounts of a whole number of lamports, some of them large enough for a
\* tenth of them to be a whole lamport
BuildAmounts ==
    LamportArgs \cup { Ratio(10 * n, LAMPORTS_PER_SOL) : n \in 1 .. MaxAmount }

\* pool prices in lamports per whole token
BuildPrices == { TOKEN_UNIT * k : k \in 1 .. MaxReserve }

NoMessage == Message(<<>>, NoneStr)

\* the arguments of one call of a builder
BuildCall(fn, mint, payer, creator, market, x, sol, price, pct) ==
    [called |-> FALSE, fn |-> fn, mint |-> mint, payer |-> payer,
     creator |-> creator, market |-> market, x |-> x, sol |-> sol,
     price |-> price, pct |-> pct, out |-> NoMessage]

BuildInputs ==
    { BuildCall(fn, mint, payer, creator, NoneStr, x, sol, 0, pct) :
        fn \in {"_buy_token_pumpfun", "buy_pump_fun_token"},
        mint \in Mints, payer \in Wallets, creator \in Creators,
        x \in 1 .. MaxTokens, sol \in BuildAmounts, pct \in SlippagePcts }
      \cup { BuildCall("_buy_pump_swap_token", mint, payer, NoneStr, market,
                       x, sol, 0, pct) :
               mint \in Mints, payer \in Wallets, market \in Markets,
               x \in 1 .. MaxTokens, sol \in BuildAmounts, pct \in SlippagePcts }
      \cup { BuildCall("_sell_pump_swap_token", mint, payer, NoneStr, market,
                       x, Ratio(0, 1), price, pct) :
               mint \in Mints, payer \in Wallets, market \in Markets,
               x \in 1 .. MaxTokens, price \in BuildPrices,
               pct \in SlippagePcts }

InitBuild ==
    /\ wallet = TRUE
    /\ ledger = EmptyLedger
    /\ now = 0
    /\ pc = "idle"
    /\ call = NoCall
    /\ curve = NoChainCurve
    /\ pools = <<>>
    /\ stat = NoStat
    /\ probe \in BuildInputs
    /\ run = NoRun
    /\ tasks = NoTasks
    /\ lsn = NoListeners
    /\ sdk = NoSdk

PumpfunBuyBuild ==
    MathReturn("_buy_token_pumpfun",
               PumpfunBuyMessage(probe.mint, probe.payer, probe.creator,
                                 probe.x, probe.sol, probe.pct))

StandaloneBuyBuild ==
    MathReturn("buy_pump_fun_token",
               StandaloneBuyMessage(probe.mint, probe.payer, probe.creator,
                                    probe.x, probe.sol, probe.pct))

PumpSwapBuyBuild ==
    MathReturn("_buy_pump_swap_token",
               PumpSwapBuyMessage(probe.market, probe.payer, probe.mint,
                                  probe.x, probe.sol, probe.pct))

PumpSwapSellBuild ==
    MathReturn("_sell_pump_swap_token",
               PumpSwapSellMessage(probe.market, probe.payer, probe.mint,
                                   probe.x,
                                   MinSolOutput(probe.x, probe.price, probe.pct)))

NextBuild ==
    \/ PumpfunBuyBuild
    \/ StandaloneBuyBuild
    \/ PumpSwapBuyBuild
    \/ PumpSwapSellBuild

SpecBuild == InitBuild /\ [][NextBuild]_vars

\* the trade instruction of the message built: its last instruction
TradeIx == probe.out.instructions[Len(probe.out.instructions)]

\* the part an account plays in the trade of the finished call
RoleOf(key) ==
    LET bonding_curve ==
            FindProgramAddress(<<"bonding-curve", probe.mint>>, PUMP_PROGRAM)
        vault_authority ==
            FindCoinCreatorVault(MarketField(probe.market, "coin_creator"))
    IN  CASE key \in {PUMP_GLOBAL, PUMP_SWAP_GLOBAL_CONFIG} -> "global config"
          [] key \in {PUMP_FEE, PUMP_PROTOCOL_FEE_RECIPIENT,
                      PUMP_PROTOCOL_FEE_RECIPIENT_TOKEN_ACCOUNT} -> "fee recipient"
          [] key \in {probe.mint, SOL_MINT} -> "asset mint"
          [] key \in {bonding_curve, probe.market} -> "pool or curve account"
          [] key \in {GetAssociatedTokenAddress(bonding_curve, probe.mint),
                      MarketField(probe.market, "pool_base_token_account"),
                      MarketField(probe.market, "pool_quote_token_account")}
                -> "pool or curve token account"
          [] key \in {GetAssociatedTokenAddress(probe.payer, probe.mint),
                      GetAssociatedTokenAddress(probe.payer, SOL_MINT)}
                -> "trader token account"
          [] key = probe.payer -> "trader"
          [] key \in {SYSTEM_PROGRAM, SYSTEM_TOKEN_PROGRAM,
                      SYSTEM_ASSOCIATED_TOKEN_ACCOUNT_PROGRAM} -> "program reference"
          [] key \in {FindProgramAddress(<<"creator-vault", probe.creator>>,
                                         PUMP_PROGRAM),
                      vault_authority,
                      GetAssociatedTokenAddress(vault_authority, SOL_MINT)}
                -> "creator vault"
          [] key \in {PUMP_EVENT_AUTHORITY, PUMP_SWAP_EVENT_AUTHORITY}
                -> "event authority"
          [] key \in {PUMP_PROGRAM, PUMP_AMM_PROGRAM_ID} -> "program"
          [] key \in {FindProgramAddress(<<"global_volume_accumulator">>, PUMP_PROGRAM),
                      SdkFindGlobalVolumeAccumulator}
                -> "global volume accumulator"
          [] key \in {FindProgramAddress(<<"user_volume_accumulator", probe.payer>>,
                                         PUMP_PROGRAM),
                      SdkFindUserVolumeAccumulator(probe.payer)}
                -> "user volume accumulator"
          [] OTHER -> "unknown"

RECURSIVE RoleOrder(_)
\* the parts played along an account list, each run of one part named once
RoleOrder(accounts) ==
    IF accounts = <<>> THEN <<>>
    ELSE LET r == RoleOf(Head(accounts).pubkey)
             rest == RoleOrder(Tail(accounts))
         IN  IF rest # <<>> /\ Head(rest) = r THEN rest ELSE <<r>> \o rest

\* the order the claim states
ClaimedOrder ==
    <<"global config", "fee recipient", "asset mint", "pool or curve account",
      "pool or curve token account", "trader token account", "trader",
      "program reference", "creator vault", "event authority", "program",
      "global volume accumulator", "user volume accumulator">>

\* the order of the pool instructions
PoolOrder ==
    <<"pool or curve account", "trader", "global config", "asset mint",
      "trader token account", "pool or curve token account", "fee recipient",
      "program reference", "event authority", "program", "creator vault">>

\* the trader is the only signer of the trade instruction
TraderOnlySigner ==
    \A i \in DOMAIN TradeIx.accounts :
        TradeIx.accounts[i].is_signer <=> TradeIx.accounts[i].pubkey = probe.payer

Builders == {"_buy_token_pumpfun", "buy_pump_fun_token", "_buy_pump_swap_token", "_sell_pump_swap_token"}

\* C23: for every venue family the trade instruction lists its accounts in
\* the order global config, fee recipient, asset mint, pool/curve account,
\* its token account, trader's token account, trader (the only signer),
\* program references, creator vault, event authority, program, global and
\* per-user volume accumulator; and the SDK curve buy and the standalone buy
\* build the same list entry for entry.
Cex_C23_OneOrderEveryVenue ==
    /\ (probe.called /\ probe.fn \in Builders)
         => (RoleOrder(TradeIx.accounts) = ClaimedOrder /\ TraderOnlySigner)
    /\ Did("_buy_token_pumpfun")
         => TradeIx.accounts
              = StandaloneBuyAccounts(probe.mint, probe.payer, probe.creator)

\* C23 (amended): the two bonding-curve buys list their fourteen accounts in
\* the stated order and build the same list entry for entry; the pool buy
\* and the pool sell list theirs in the pool order (market, trader, global
\* config, mints, trader's token accounts, pool's token accounts, fee
\* recipient, program references, event authority, program, creator vault),
\* the buy followed by the two volume accumulators; the trader is the only
\* signer of each.
Thm_C23_OrderPerVenue ==
    /\ (Did("_buy_token_pumpfun") \/ Did("buy_pump_fun_token"))
         => /\ RoleOrder(TradeIx.accounts) = ClaimedOrder
            /\ Len(TradeIx.accounts) = Len(ClaimedOrder) + 1
            /\ TraderOnlySigner
    /\ Did("_buy_token_pumpfun")
         => TradeIx.accounts
              = StandaloneBuyAccounts(probe.mint, probe.payer, probe.creator)
    /\ Did("buy_pump_fun_token")
         => TradeIx.accounts
              = PumpfunBuyAccounts(probe.mint, probe.payer, probe.creator)
    /\ Did("_buy_pump_swap_token")
         => /\ RoleOrder(TradeIx.accounts)
                 = PoolOrder \o <<"global volume accumulator",
                                  "user volume accumulator">>
            /\ TraderOnlySigner
    /\ Did("_sell_pump_swap_token")
         => /\ RoleOrder(TradeIx.accounts) = PoolOrder
            /\ TraderOnlySigner

Wit_C23_CurveBuyBuilt ==
    /\ Did("_buy_token_pumpfun")
    /\ probe.creator = "creatorB"
    /\ TradeIx.accounts[10].pubkey = FindCreatorVault("creatorB")
    /\ TradeIx.accounts[7] = AccountMeta(probe.payer, TRUE, TRUE)

Wit_C23_PoolBuyBuilt ==
    /\ Did("_buy_pump_swap_token")
    /\ TradeIx.accounts[1].pubkey = probe.market
    /\ TradeIx.accounts[2] = AccountMeta(probe.payer, TRUE, TRUE)

\* the names of the instructions of the message built
IxNames == [i \in DOMAIN probe.out.instructions |-> probe.out.instructions[i].name]

\* C24: the pool buy transaction holds, after the compute-budget
\* instructions, in this order: idempotent creation of the trader's
\* wrapped-quote account, a native transfer into it of the spend plus a 10%
\* buffer, the sync instruction, idempotent creation of the base-asset token
\* account, then the trade instruction.
Thm_C24_PoolBuySequence ==
    Did("_buy_pump_swap_token") =>
        LET ix == probe.out.instructions
            wsol == GetAssociatedTokenAddress(probe.payer, SOL_MINT)
            spend == IntLamports(probe.sol)
        IN  /\ IxNames = <<"set_compute_unit_limit", "set_compute_unit_price",
                           "create_idempotent_associated_token_account",
                           "transfer", "sync_native",
                           "create_idempotent_associated_token_account", "buy">>
            /\ ix[3].accounts[2].pubkey = wsol
            /\ ix[4].accounts[1].pubkey = probe.payer
            /\ ix[4].accounts[2].pubkey = wsol
            /\ ix[4].args = <<spend + spend \div 10>>
            /\ ix[5].accounts[1].pubkey = wsol
            /\ ix[6].accounts[2].pubkey
                 = GetAssociatedTokenAddress(probe.payer, probe.mint)
            /\ ix[7].program_id = PUMP_AMM_PROGRAM_ID

Wit_C24_BufferedWrap ==
    /\ Did("_buy_pump_swap_token")
    /\ IntLamports(probe.sol) = 10
    /\ probe.out.instructions[4].args = <<11>>
    /\ probe.out.instructions[5].name = "sync_native"

\* C34: in every pool-venue buy the lamports wrapped into the trader's
\* wrapped-SOL account (spend + 10% buffer) are at least the max_sol_input
\* limit encoded in the buy instruction (spend * (1 + slippage)), for every
\* spend and every slippage value, including the default slippage of 0.25.
Cex_C34_WrapCoversLimit ==
    Did("_buy_pump_swap_token") =>
        probe.out.instructions[4].args[1] >= TradeIx.args[2]

(***************************************************************************)
(* Specification of buy_token calls in flight on one event loop            *)
(***************************************************************************)

\* a buy_token coroutine: its arguments, its position, the result of its
\* venue path and the positions save_buy_position loaded
Task(mint, lamports) ==
    [mint |-> mint, lamports |-> lamports, pc |-> "created",
     result |-> NoResult, positions |-> {}, readOk |-> TRUE, io |-> "ok"]

\* what the venue path of a buy can return once its remote calls are over
BuyPathResults(mint, lamports) ==
    { BuyTokenPumpfun(lamports, acct, fail).result :
        acct \in CurveAccounts, fail \in FailPoints(PumpfunBuySteps) }
      \cup { BuyTokenPumpswap(scan, 1, "none").result :
               scan \in ScanOutcomes[mint] }
      \cup { NotReady.result }

InitTasks ==
    /\ wallet = TRUE
    /\ ledger = EmptyLedger
    /\ now = 0
    /\ pc = "idle"
    /\ call = NoCall
    /\ curve = NoChainCurve
    /\ pools = <<>>
    /\ stat = NoStat
    /\ probe = NoProbe
    /\ run = NoRun
    /\ tasks \in [1 .. MaxTasks ->
                    { Task(mint, lamports) :
                        mint \in Mints, lamports \in 1 .. MaxLamports }]
    /\ lsn = NoListeners
    /\ sdk = NoSdk

\* the coroutine is between the return of its venue path and its own return:
\* buy_token has no await there and save_buy_position is not a coroutine
InLedgerOp(i) == tasks[i].pc \in {"save_buy_position", "loaded"}

\* the event loop runs coroutine i: no other coroutine is in a stretch of
\* code without an await
Runs(i) == \A j \in DOMAIN tasks : j # i => ~InLedgerOp(j)

\* buy_token runs up to its first await (get_token_status)
TaskAwait(i) ==
    /\ Runs(i) /\ tasks[i].pc = "created"
    /\ tasks' = [tasks EXCEPT ![i].pc = "awaiting"]
    /\ UNCHANGED <<wallet, ledger, now, pc, call, curve, pools, stat, probe, run, lsn, sdk>>

\* the venue path returns r and buy_token continues to its guard on the
\* result
TaskResume(i, r) ==
    /\ Runs(i) /\ tasks[i].pc = "awaiting"
    /\ tasks' = [tasks EXCEPT ![i].result = r,
                              ![i].pc = IF ShouldSave(r) THEN "save_buy_position"
                                        ELSE "done"]
    /\ UNCHANGED <<wallet, ledger, now, pc, call, curve, pools, stat, probe, run, lsn, sdk>>

\* save_buy_position: positions = self._load_positions()
TaskLoad(i, readOk) ==
    /\ Runs(i) /\ tasks[i].pc = "save_buy_position"
    /\ tasks' = [tasks EXCEPT ![i].positions = LoadPositions(ledger, readOk),
                              ![i].readOk = readOk,
                              ![i].pc = "loaded"]
    /\ UNCHANGED <<wallet, ledger, now, pc, call, curve, pools, stat, probe, run, lsn, sdk>>

\* save_buy_position: positions[mint] = position; self._save_positions(...)
TaskSave(i, io) ==
    /\ Runs(i) /\ tasks[i].pc = "loaded"
    /\ LET t == tasks[i]
           position == Position(t.mint, t.result.tokens_bought,
                                t.result.sol_spent,
                                EntryPrice(t.result.sol_spent,
                                           t.result.tokens_bought), now)
       IN  ledger' = SavePositions(ledger,
                        {p \in t.positions : p.mint # t.mint} \cup {position},
                        io)
    /\ tasks' = [tasks EXCEPT ![i].io = io, ![i].pc = "done"]
    /\ UNCHANGED <<wallet, now, pc, call, curve, pools, stat, probe, run, lsn, sdk>>

NextTasks ==
    \/ \E i \in DOMAIN tasks : TaskAwait(i)
    \/ \E i \in DOMAIN tasks :
         \E r \in BuyPathResults(tasks[i].mint, tasks[i].lamports) :
            TaskResume(i, r)
    \/ \E i \in DOMAIN tasks, readOk \in BOOLEAN : TaskLoad(i, readOk)
    \/ \E i \in DOMAIN tasks, io \in WriteOutcomes : TaskSave(i, io)

SpecTasks == InitTasks /\ [][NextTasks]_vars

\* every buy_token call has returned
AllDone == \A i \in DOMAIN tasks : tasks[i].pc = "done"

\* C27: ledger operations are serialized: under every interleaving of
\* buy_token calls in flight on one event loop no two of them are inside a
\* ledger read-modify-write at once, and after all calls have finished the
\* ledger holds a position for every asset whose buy succeeded with a
\* recorded amount.
Cex_C27_LedgerSerialized ==
    /\ \A i, j \in DOMAIN tasks : i # j => ~(InLedgerOp(i) /\ InLedgerOp(j))
    /\ AllDone =>
         \A i \in DOMAIN tasks :
            ShouldSave(tasks[i].result) =>
                \E p \in Held(ledger) : p.mint = tasks[i].mint

(***************************************************************************)
(* Specification of the background listeners                               *)
(***************************************************************************)
InitListener ==
    /\ wallet = TRUE
    /\ ledger = EmptyLedger
    /\ now = 0
    /\ pc = "idle"
    /\ call = NoCall
    /\ curve = NoChainCurve
    /\ pools = <<>>
    /\ stat = NoStat
    /\ probe = NoProbe
    /\ run = NoRun
    /\ tasks = NoTasks
    /\ lsn = NoListeners
    /\ sdk = NoSdk

\* task.done()
TaskDone(f) == lsn.task[f] = "done"

\* sdk.stop_all_listeners(): cancel every task of active_listeners, clear it
StopAllListeners(subs, active) ==
    [k \in DOMAIN subs |->
        IF k \in active THEN [subs[k] EXCEPT !.state = "cancelled"] ELSE subs[k]]

\* start_token_listener_with_logging(duration_seconds, log_file), when no
\* listener is running for the file: create the background task, register it
StartTokenListener(f) ==
    /\ ~(f \in lsn.background_listeners /\ ~TaskDone(f))
    /\ Len(lsn.subs) < MaxSubscriptions
    /\ lsn' = [lsn EXCEPT !.task[f] = "created",
                          !.cancel = lsn.cancel \ {f},
                          !.background_listeners = lsn.background_listeners \cup {f}]
    /\ UNCHANGED <<wallet, ledger, now, pc, call, curve, pools, stat, probe, run, tasks, sdk>>

\* the finally block of background_listener: stop_all_listeners(), then
\* delete the key if it is present
ListenerFinally(f) ==
    [lsn EXCEPT !.task[f] = "done",
                !.cancel = lsn.cancel \ {f},
                !.subs = StopAllListeners(lsn.subs, lsn.active_listeners),
                !.active_listeners = {},
                !.background_listeners = lsn.background_listeners \ {f}]

\* background_listener starts: listen_new_tokens creates the subscription
\* task and appends it to active_listeners, then the task sleeps; or
\* listen_new_tokens raises and the task ends through its finally block
ListenerRun(f, ok) ==
    /\ lsn.task[f] = "created" /\ f \notin lsn.cancel
    /\ IF ok
         THEN lsn' = [lsn EXCEPT
                        !.task[f] = "sleeping",
                        !.subs = Append(lsn.subs, [owner |-> f, state |-> "running"]),
                        !.active_listeners =
                            lsn.active_listeners \cup {Len(lsn.subs) + 1}]
         ELSE lsn' = ListenerFinally(f)
    /\ UNCHANGED <<wallet, ledger, now, pc, call, curve, pools, stat, probe, run, tasks, sdk>>

\* duration_seconds have passed: asyncio.sleep returns, the finally block runs
ListenerExpire(f) ==
    /\ lsn.task[f] = "sleeping" /\ f \notin lsn.cancel
    /\ lsn' = ListenerFinally(f)
    /\ UNCHANGED <<wallet, ledger, now, pc, call, curve, pools, stat, probe, run, tasks, sdk>>

\* the cancellation reaches the task: a task that never ran ends at once, a
\* sleeping task gets CancelledError in asyncio.sleep, which `except
\* Exception` does not catch, and runs its finally block
ListenerCancelled(f) ==
    /\ f \in lsn.cancel /\ lsn.task[f] \in {"created", "sleeping"}
    /\ IF lsn.task[f] = "created"
         THEN lsn' = [lsn EXCEPT !.task[f] = "done", !.cancel = lsn.cancel \ {f}]
         ELSE lsn' = ListenerFinally(f)
    /\ UNCHANGED <<wallet, ledger, now, pc, call, curve, pools, stat, probe, run, tasks, sdk>>

\* what a finished stop_token_listener call leaves behind
StopOutcome(l, f, pc_, result, error) ==
    [l.stop EXCEPT
        !.pc = pc_, !.result = result, !.error = error,
        !.task_done = (l.task[f] = "done"),
        !.key_present = (f \in l.background_listeners),
        !.active_empty = (l.active_listeners = {}),
        !.subs_cancelled =
            \A k \in DOMAIN l.subs :
                l.subs[k].owner = f => l.subs[k].state = "cancelled"]

\* stop_token_listener(log_file) up to `await task`
StopTokenListener(f) ==
    /\ lsn.stop.pc # "awaiting"
    /\ LET s0 == [NoStop EXCEPT !.file = f,
                                !.running = (f \in lsn.background_listeners
                                             /\ lsn.task[f] = "sleeping")]
           l0 == [lsn EXCEPT !.stop = s0]
       IN  IF f \notin lsn.background_listeners
             THEN lsn' = [l0 EXCEPT !.stop =
                            StopOutcome(l0, f, "returned",
                                        "No active listener found", NoneStr)]
           ELSE IF TaskDone(f)
             THEN LET l1 == [l0 EXCEPT !.background_listeners =
                                          lsn.background_listeners \ {f}]
                  IN  lsn' = [l1 EXCEPT !.stop =
                                StopOutcome(l1, f, "returned",
                                            "had already stopped", NoneStr)]
           ELSE \* task.cancel(); sdk.stop_all_listeners(); await task
                lsn' = [l0 EXCEPT
                          !.cancel = lsn.cancel \cup {f},
                          !.subs = StopAllListeners(lsn.subs, lsn.active_listeners),
                          !.active_listeners = {},
                          !.stop = [s0 EXCEPT !.pc = "awaiting"]]
    /\ UNCHANGED <<wallet, ledger, now, pc, call, curve, pools, stat, probe, run, tasks, sdk>>

\* the awaited task is done: CancelledError is swallowed, then
\* `del sdk.background_listeners[listener_key]` runs
StopTokenListenerResume ==
    /\ lsn.stop.pc = "awaiting" /\ TaskDone(lsn.stop.file)
    /\ LET f == lsn.stop.file
       IN  IF f \in lsn.background_listeners
             THEN LET l1 == [lsn EXCEPT !.background_listeners =
                                          lsn.background_listeners \ {f}]
                  IN  lsn' = [l1 EXCEPT !.stop =
                                StopOutcome(l1, f, "returned", "Stopped", NoneStr)]
             ELSE lsn' = [lsn EXCEPT !.stop =
                            StopOutcome(lsn, f, "raised", NoneStr, "KeyError")]
    /\ UNCHANGED <<wallet, ledger, now, pc, call, curve, pools, stat, probe, run, tasks, sdk>>

\* the subscription task a listener created is still running
SubscriptionAlive(l, f) ==
    \E k \in DOMAIN l.subs : l.subs[k].owner = f /\ l.subs[k].state = "running"

\* check_listener_status(log_file); subscribed records whether the listener
\* had created its subscription task when the status was read, alive whether
\* that task was still running
CheckListenerStatus(f) ==
    /\ IF f \notin lsn.background_listeners
         THEN lsn' = [lsn EXCEPT !.status =
                        [file |-> f, result |-> "No listener running",
                         subscribed |-> (lsn.task[f] = "sleeping"),
                         alive |-> SubscriptionAlive(lsn, f)]]
       ELSE IF TaskDone(f)
         THEN lsn' = [lsn EXCEPT
                        !.background_listeners = lsn.background_listeners \ {f},
                        !.status = [file |-> f, result |-> "has stopped",
                                    subscribed |-> (lsn.task[f] = "sleeping"),
                                    alive |-> SubscriptionAlive(lsn, f)]]
       ELSE lsn' = [lsn EXCEPT !.status =
                      [file |-> f, result |-> "Listener active",
                       subscribed |-> (lsn.task[f] = "sleeping"),
                       alive |-> SubscriptionAlive(lsn, f)]]
    /\ UNCHANGED <<wallet, ledger, now, pc, call, curve, pools, stat, probe, run, tasks, sdk>>

NextListener ==
    \/ \E f \in LogFiles : StartTokenListener(f)
    \/ \E f \in LogFiles, ok \in BOOLEAN : ListenerRun(f, ok)
    \/ \E f \in LogFiles : ListenerExpire(f)
    \/ \E f \in LogFiles : ListenerCancelled(f)
    \/ \E f \in LogFiles : StopTokenListener(f)
    \/ StopTokenListenerResume
    \/ \E f \in LogFiles : CheckListenerStatus(f)

SpecListener == InitListener /\ [][NextListener]_vars

\* C28: stop_token_listener called for a listener that is running completes
\* normally: it returns its 'Stopped' message and raises nothing, and
\* afterwards the background task is done, every subscription task it
\* started is cancelled, active_listeners is empty and the listener's key is
\* absent from background_listeners.
Cex_C28_StopCompletes ==
    (lsn.stop.running /\ lsn.stop.pc \in {"returned", "raised"})
        => /\ lsn.stop.pc = "returned"
           /\ lsn.stop.result = "Stopped"
           /\ lsn.stop.task_done
           /\ lsn.stop.subs_cancelled
           /\ lsn.stop.active_empty
           /\ ~lsn.stop.key_present

\* C37: stopping or expiry of one background listener does not affect
\* another: a listener that is running and was not itself stopped keeps its
\* subscription task running, and check_listener_status reports a listener
\* as active only while its subscription is alive.
Cex_C37_ListenersIndependent ==
    /\ \A g \in LogFiles :
          (lsn.task[g] = "sleeping" /\ g \notin lsn.cancel)
              => SubscriptionAlive(lsn, g)
    /\ (lsn.status.result = "Listener active" /\ lsn.status.subscribed)
          => lsn.status.alive

(***************************************************************************)
(* Specification of get_sdk and its concurrent callers                     *)
(***************************************************************************)
\* a coroutine about to call get_sdk; got is the instance it received and
\* ready the state of that instance's readiness wait when it was returned
Caller == [pc |-> "start", got |-> 0, ready |-> "none"]

InitSdk ==
    /\ wallet = TRUE
    /\ ledger = EmptyLedger
    /\ now = 0
    /\ pc = "idle"
    /\ call = NoCall
    /\ curve = NoChainCurve
    /\ pools = <<>>
    /\ stat = NoStat
    /\ probe = NoProbe
    /\ run = NoRun
    /\ tasks = NoTasks
    /\ lsn = NoListeners
    /\ sdk = [NoSdk EXCEPT !.callers = [i \in 1 .. MaxCallers |-> Caller]]

\* get_sdk up to its await or its return: with _sdk_instance None create the
\* instance, assign the global and start waiting; otherwise return the
\* global at once
GetSdk(i) ==
    /\ sdk.callers[i].pc = "start"
    /\ IF sdk.instance = 0
         THEN sdk' = [sdk EXCEPT !.instance = sdk.created + 1,
                                 !.created = sdk.created + 1,
                                 !.ready = "pending",
                                 !.callers[i].pc = "waiting"]
         ELSE sdk' = [sdk EXCEPT !.callers[i] =
                        [pc |-> "returned", got |-> sdk.instance,
                         ready |-> sdk.ready]]
    /\ UNCHANGED <<wallet, ledger, now, pc, call, curve, pools, stat, probe, run, tasks, lsn>>

\* one turn of the loop of wait_for_client_ready: get_cached_blockhash
\* returns and get_sdk returns the instance, or it raises RuntimeError and
\* the loop sleeps 0.5 s; when the timeout has passed, RuntimeError("Client
\* not ready") leaves get_sdk
WaitForClientReady(i, cached) ==
    /\ sdk.callers[i].pc = "waiting"
    /\ IF cached
         THEN sdk' = [sdk EXCEPT !.ready = "ready",
                                 !.callers[i] =
                                    [pc |-> "returned", got |-> sdk.instance,
                                     ready |-> "ready"]]
       ELSE IF sdk.polls + 1 < MaxPolls
         THEN sdk' = [sdk EXCEPT !.polls = sdk.polls + 1]
       ELSE sdk' = [sdk EXCEPT !.polls = sdk.polls + 1,
                               !.ready = "failed",
                               !.callers[i].pc = "raised"]
    /\ UNCHANGED <<wallet, ledger, now, pc, call, curve, pools, stat, probe, run, tasks, lsn>>

NextSdk ==
    \/ \E i \in 1 .. MaxCallers : GetSdk(i)
    \/ \E i \in 1 .. MaxCallers, cached \in BOOLEAN : WaitForClientReady(i, cached)

SpecSdk == InitSdk /\ [][NextSdk]_vars

\* C38: get_sdk creates at most one TradingBotSDK instance per process, and
\* every call, under any interleaving of concurrent callers and also after
\* an earlier call failed with 'Client not ready', returns only after
\* wait_for_client_ready has completed successfully for that instance: no
\* caller receives an instance whose readiness wait is pending or has failed.
Cex_C38_SingletonReady ==
    /\ sdk.created <= 1
    /\ \A i \in DOMAIN sdk.callers :
          sdk.callers[i].pc = "returned" => sdk.callers[i].ready = "ready"

====
